---- MODULE Spec2Model ----
(***************************************************************************)
(* A model of hyperspy's Model class (src/hyperspy/model.py): an ordered   *)
(* list of components bound to one spectral axis and one navigation        *)
(* cursor.  Parameters hold a live value and a per-position map; the model *)
(* charges live values from the maps, assembles the free-parameter vector  *)
(* p0, evaluates the (optionally convolved) sum of its components and      *)
(* drives the fit over every navigation position (multifit).               *)
(*                                                                         *)
(* Component, Parameter, the axes manager and the optimizers are not part  *)
(* of the sources at hand; the operators that stand for them are marked    *)
(* as such where they are defined.                                         *)
(***************************************************************************)
EXTENDS Integers, Sequences, FiniteSets, TLC

\* ---------------------------------------------------------------- bounds
NavX == 3
NavY == 1
MaxComps == 2
AxisSize == 3
MaxEvery == 2

VARIABLES
    comps,              \* the Model itself: a list of components
    indexes,            \* axes_manager._indexes, the navigation cursor
    auto_update_plot,   \* Model.auto_update_plot
    has_plot,           \* spectrum._plot is not None
    axis,               \* Model.axis: [offset, scale, size]
    channel_switches,   \* Model.channel_switches
    low_loss,           \* Model._low_loss
    convolution_axis,   \* Model.convolution_axis
    convolved,          \* Model.convolved
    p0,                 \* Model.p0
    mf,                 \* the running multifit call: its locals and position
    st,                 \* the store/charge scenario: phase and the values stored
    op,                 \* outcome of the last _set_p0 / _charge_p0 / list call
    ev,                 \* arguments and result of the last __call__
    free_parameters_boundaries,   \* Model.free_parameters_boundaries
    mpfit_parinfo,      \* Model.mpfit_parinfo
    files,              \* the files on disk: name -> content
    edge,               \* outcome of the last Edge(...) construction
    jac,                \* arguments and result of the last _jacobian call
    backup_channel_switches       \* Model.backup_channel_switches

\* what lies outside the Model's core: bound structures, disk, Edge, jacobian
ext == << free_parameters_boundaries, mpfit_parinfo, files, edge, jac,
         backup_channel_switches >>

vars == << comps, indexes, auto_update_plot, has_plot, axis, channel_switches,
           low_loss, convolution_axis, convolved, p0, mf, st, op, ev, ext >>

\* ------------------------------------------------------------ navigation
navigation_shape == << NavX, NavY >>

\* np.cumprod(shape)[-1]
NavCount(shape) == IF Len(shape) = 1 THEN shape[1] ELSE shape[1] * shape[2]

\* np.ndindex(shape): every index of the shape, in row-major order
ndindex(shape) ==
    IF Len(shape) = 1
    THEN [k \in 1..shape[1] |-> << k - 1 >>]
    ELSE [k \in 1..(shape[1] * shape[2]) |->
              << (k - 1) \div shape[2], (k - 1) % shape[2] >>]

IndexSet(shape) == { ndindex(shape)[k] : k \in 1..NavCount(shape) }

NavPositions == IndexSet(navigation_shape)

Origin == [d \in 1..Len(navigation_shape) |-> 0]

\* position of an index in row-major order, 0-based
FlatIndex(idx) == idx[1] * navigation_shape[2] + idx[2]

\* ------------------------------------------------- parameters, components
ZeroMap(n) == [pos \in NavPositions |-> [k \in 1..n |-> 0]]

\* a map already filled by an earlier pass: every position holds its own values
RampMap(n, base) ==
    [pos \in NavPositions |-> [k \in 1..n |-> 10 * (FlatIndex(pos) + 1) + base + k]]

\* '%s' % i for a small index i; names are sequences of characters
str(i) == << << "0", "1", "2", "3", "4", "5", "6", "7", "8", "9" >>[i + 1] >>

\* a Parameter: bmin and bmax are << >> for None and << b >> for a bound b;
\* twins lists the parameters twinned to this one as << component, parameter >>
Param(free, vals, map) ==
    [free |-> free, nel |-> Len(vals), islist |-> Len(vals) > 1,
     value |-> vals, map |-> map, connection_active |-> FALSE,
     name |-> << "p" >>, twins |-> << >>, bmin |-> << >>, bmax |-> << >>]

\* a Component; its parameters are named p1, p2, ...
Comp(active, conv, params) ==
    [active |-> active, convolved |-> conv, name |-> << "c" >>,
     params |-> [k \in DOMAIN params |->
                    [params[k] EXCEPT !.name = << "p" >> \o str(k)]]]

\* the live values of every parameter of every component
LiveValues(cs) ==
    [c \in DOMAIN cs |-> [p \in DOMAIN cs[c].params |-> cs[c].params[p].value]]

\* the map entries of every parameter at one position
MapValues(cs, idx) ==
    [c \in DOMAIN cs |-> [p \in DOMAIN cs[c].params |-> cs[c].params[p].map[idx]]]

\* Component.free_parameters
free_parameters(c) == SelectSeq(c.params, LAMBDA p : p.free)

RECURSIVE SumNel(_)
SumNel(ps) == IF ps = << >> THEN 0 ELSE Head(ps).nel + SumNel(Tail(ps))

\* Component._nfree_param: the free parameters, each counted with its elements
nfree_param(c) == SumNel(free_parameters(c))

\* p[a:b] of Python, 0-based, clipped to the sequence
Slice(p, a, b) ==
    LET hi == IF b < Len(p) THEN b ELSE Len(p)
    IN  IF a >= hi THEN << >> ELSE SubSeq(p, a + 1, hi)

RECURSIVE Concat(_)
Concat(q) == IF q = << >> THEN << >> ELSE Head(q) \o Concat(Tail(q))

\* Component.charge_value_from_map(indexes, only_fixed)
charge_value_from_map(c, idx, only_fixed) ==
    [c EXCEPT !.params =
        [k \in DOMAIN c.params |->
            IF only_fixed /\ c.params[k].free
            THEN c.params[k]
            ELSE [c.params[k] EXCEPT !.value = c.params[k].map[idx]]]]

\* Component.store_current_parameters_in_map(indexes)
store_current_parameters_in_map(c, idx) ==
    [c EXCEPT !.params =
        [k \in DOMAIN c.params |->
            [c.params[k] EXCEPT !.map = [@ EXCEPT ![idx] = c.params[k].value]]]]

\* Component.charge(p, onlyfree = True): the values of p handed to the free
\* parameters in their order, each taking as many as it has elements
RECURSIVE component_charge_from(_, _, _, _)
component_charge_from(c, p, k, i) ==
    IF k > Len(c.params) THEN c
    ELSE IF ~c.params[k].free THEN component_charge_from(c, p, k + 1, i)
    ELSE LET n == c.params[k].nel
             new == [j \in 1..n |->
                        IF i + j <= Len(p) THEN p[i + j] ELSE c.params[k].value[j]]
         IN  component_charge_from(
                 [c EXCEPT !.params[k].value = new], p, k + 1, i + n)

component_charge(c, p) == component_charge_from(c, p, 1, 0)

\* ---------------------------------------------------------- Model: plot
SetConnection(cs, tof) ==
    [c \in DOMAIN cs |->
        [cs[c] EXCEPT !.params =
            [k \in DOMAIN cs[c].params |->
                [cs[c].params[k] EXCEPT !.connection_active = tof]]]]

\* Model.set_auto_update_plot(tof)
set_auto_update_plot(m, tof) ==
    [m EXCEPT !.comps = SetConnection(m.comps, tof), !.aap = tof]

\* Model.disconnect_parameters2update_plot()
disconnect_parameters2update_plot(m) ==
    set_auto_update_plot([m EXCEPT !.comps = SetConnection(m.comps, FALSE)], FALSE)

\* an update_plot that lets a failed redraw pass
update_plot_keeps(m, plot, fails) == m

\* Model.update_plot(): redraws the lines of an open plot; when the redraw
\* raises, the parameters are disconnected
update_plot(m, plot, fails) ==
    IF plot /\ fails THEN disconnect_parameters2update_plot(m) ELSE m

\* ------------------------------------------- Model: charge, set, p0
\* a store that writes nothing
set_skipped(cs, idx) == cs

\* Model.set(): store the live values into the maps at the cursor
set(cs, idx) ==
    [c \in DOMAIN cs |-> store_current_parameters_in_map(cs[c], idx)]

\* a charge that never overwrites a free parameter
ChargeComponentsFixedOnly(cs, idx, only_fixed) ==
    [c \in DOMAIN cs |-> charge_value_from_map(cs[c], idx, TRUE)]

\* the loop of Model.charge over the components
ChargeComponents(cs, idx, only_fixed) ==
    [c \in DOMAIN cs |-> charge_value_from_map(cs[c], idx, only_fixed)]

\* a charge that leaves the free parameters as the last fit left them
charge_seeded(m, idx, only_fixed, plot, fails) ==
    [m EXCEPT !.comps = ChargeComponentsFixedOnly(m.comps, idx, only_fixed)]

\* Model.charge(only_fixed): m is [comps, aap]
charge(m, idx, only_fixed, plot, fails) ==
    LET switch_aap == (FALSE # m.aap)
        m1 == IF switch_aap THEN set_auto_update_plot(m, FALSE) ELSE m
        m2 == [m1 EXCEPT !.comps = ChargeComponents(m1.comps, idx, only_fixed)]
    IN  IF switch_aap
        THEN update_plot(set_auto_update_plot(m2, TRUE), plot, fails)
        ELSE m2

\* Model._set_p0(): the inner loop over one component's free parameters
RECURSIVE set_p0_params(_, _)
set_p0_params(acc, ps) ==
    IF ps = << >> THEN acc
    ELSE LET param == Head(ps)
             nxt == IF ~acc.none
                    THEN [none |-> FALSE,
                          v |-> IF ~param.islist
                                THEN acc.v \o << param.value[1] >>
                                ELSE acc.v \o param.value]
                    ELSE [none |-> FALSE,
                          v |-> IF ~param.islist
                                THEN << param.value[1] >>
                                ELSE param.value]
         IN  set_p0_params(nxt, Tail(ps))

p0_takes(c) == c.active

RECURSIVE set_p0_comps(_, _)
set_p0_comps(acc, cs) ==
    IF cs = << >> THEN acc
    ELSE set_p0_comps(
             IF p0_takes(Head(cs))
             THEN set_p0_params(acc, free_parameters(Head(cs)))
             ELSE acc,
             Tail(cs))

\* Model._set_p0(): p0 starts as None and tuple(p0) ends the call; tuple(None)
\* raises TypeError, and self.p0 is then left as it was
set_p0(cs) ==
    LET acc == set_p0_comps([none |-> TRUE, v |-> << >>], cs)
    IN  [raised |-> acc.none, v |-> acc.v]

\* a counter that is never advanced
charge_p0_stuck(counter, c) == counter

\* Model._charge_p0(): counter += component._nfree_param
charge_p0_next(counter, c) == counter + nfree_param(c)

charge_p0_takes(c) == c.active = TRUE

\* Model._charge_p0(): each active component is handed
\* p0[counter : counter + _nfree_param]; the slices handed are kept in order
RECURSIVE charge_p0_loop(_, _, _, _, _)
charge_p0_loop(cs, p, i, counter, slices) ==
    IF i > Len(cs) THEN [comps |-> cs, slices |-> slices]
    ELSE IF charge_p0_takes(cs[i])
    THEN LET piece == Slice(p, counter, counter + nfree_param(cs[i]))
         IN  charge_p0_loop(
                 [cs EXCEPT ![i] = component_charge(cs[i], piece)],
                 p, i + 1, charge_p0_next(counter, cs[i]),
                 Append(slices, [c |-> i, piece |-> piece]))
    ELSE charge_p0_loop(cs, p, i + 1, counter, slices)

charge_p0(cs, p) == charge_p0_loop(cs, p, 1, 0, << >>).comps

charge_p0_slices(cs, p) == charge_p0_loop(cs, p, 1, 0, << >>).slices

\* ------------------------------------------------------ bound structures
\* Parameter._bounds: the pair (bmin, bmax) of a one-element parameter, one
\* such pair per element otherwise
param_bounds(param) ==
    LET pair == [min |-> param.bmin, max |-> param.bmax]
    IN  IF param.nel = 1 THEN pair ELSE [k \in 1..param.nel |-> pair]

\* Model.set_boundaries: the loop over the free parameters of one component
RECURSIVE set_boundaries_params(_, _)
set_boundaries_params(acc, ps) ==
    IF ps = << >> THEN acc
    ELSE LET param == Head(ps)
             nxt == IF param.nel = 1
                    THEN Append(acc, param_bounds(param))
                    ELSE acc \o param_bounds(param)
         IN  set_boundaries_params(nxt, Tail(ps))

\* Model.set_boundaries
RECURSIVE set_boundaries(_, _)
set_boundaries(acc, cs) ==
    IF cs = << >> THEN acc
    ELSE set_boundaries(
             IF Head(cs).active
             THEN set_boundaries_params(acc, free_parameters(Head(cs)))
             ELSE acc,
             Tail(cs))

\* the dictionary Model.set_mpfit_parameters_info builds for one parameter
mpfit_info(param) ==
    [limited |-> << param.bmin # << >>, param.bmax # << >> >>,
     limits |-> << IF param.bmin # << >> THEN param.bmin[1] ELSE 0,
                   IF param.bmax # << >> THEN param.bmax[1] ELSE 0 >>]

\* the entries Model.set_mpfit_parameters_info appends for one free
\* parameter: one when it has one element, none otherwise
mpfit_entries(param) ==
    IF param.nel = 1 THEN << mpfit_info(param) >> ELSE << >>

RECURSIVE set_mpfit_params(_, _)
set_mpfit_params(acc, ps) ==
    IF ps = << >> THEN acc
    ELSE set_mpfit_params(acc \o mpfit_entries(Head(ps)), Tail(ps))

\* Model.set_mpfit_parameters_info
RECURSIVE set_mpfit_parameters_info(_, _)
set_mpfit_parameters_info(acc, cs) ==
    IF cs = << >> THEN acc
    ELSE set_mpfit_parameters_info(
             IF Head(cs).active
             THEN set_mpfit_params(acc, free_parameters(Head(cs)))
             ELSE acc,
             Tail(cs))

\* ---------------------------------------------------------- cursor, fit
\* axes_manager.set_not_slicing_indexes(index): the cursor moves and, when
\* it changed, the callbacks registered with axes_manager.connect run;
\* Model.__init__ registers Model.charge, which then runs with its default
\* only_fixed = False
set_not_slicing_indexes(m, cur, index, plot, fails) ==
    IF index # cur THEN charge(m, index, FALSE, plot, fails) ELSE m

\* Model.fit at one position: assemble p0, let the optimizer replace it by
\* the fitted vector p, hand p back to the components, store into the maps
fit(cs, idx, p) == set(charge_p0(cs, p), idx)

FitVals == { 7, 9 }

\* ------------------------------------------------ parameter files on disk
\* a file name is a sequence of pieces, the extension ".npz" being one piece
EndsNpz(fn) == fn # << >> /\ fn[Len(fn)] = ".npz"

\* the name np.savez writes to: ".npz" is appended unless already there
savez_name(fn) == IF EndsNpz(fn) THEN fn ELSE Append(fn, ".npz")

\* d[k] = v of a Python dict
Put(d, k, v) == [x \in DOMAIN d \cup { k } |-> IF x = k THEN v ELSE d[x]]

\* name.lower().replace(' ', '_')
lower_replace(name) ==
    [k \in DOMAIN name |->
        CASE name[k] = "A" -> "a"
          [] name[k] = "P" -> "p"
          [] name[k] = " " -> "_"
          [] OTHER -> name[k]]

\* '%s_%s.%s' % (i, cname, pname)
file_key(i, c, param) ==
    str(i) \o << "_" >> \o lower_replace(c.name) \o << "." >>
           \o lower_replace(param.name)

\* the parameters in the order both loops visit them: << component, parameter >>
ParamOrder(cs) ==
    Concat([c \in DOMAIN cs |-> [k \in DOMAIN cs[c].params |-> << c, k >>]])

\* Model.save_parameters2file: the dictionary kwds
RECURSIVE save_kwds(_, _, _)
save_kwds(kwds, cs, todo) ==
    IF todo = << >> THEN kwds
    ELSE LET c == Head(todo)[1]
             k == Head(todo)[2]
         IN  save_kwds(Put(kwds, file_key(c - 1, cs[c], cs[c].params[k]),
                           cs[c].params[k].map),
                       cs, Tail(todo))

\* Model.save_parameters2file(filename)
save_parameters2file(fs, cs, fn) ==
    Put(fs, savez_name(fn),
        [npz |-> TRUE, kwds |-> save_kwds(<< >>, cs, ParamOrder(cs))])

\* Model.load_parameters_from_file: the loop that assigns param.map; a key
\* the archive lacks raises KeyError and leaves the maps assigned so far
RECURSIVE load_maps(_, _, _)
load_maps(f, cs, todo) ==
    IF todo = << >> THEN [raised |-> FALSE, comps |-> cs]
    ELSE LET c == Head(todo)[1]
             k == Head(todo)[2]
             key == file_key(c - 1, cs[c], cs[c].params[k])
         IN  IF key \notin DOMAIN f.kwds
             THEN [raised |-> TRUE, comps |-> cs]
             ELSE load_maps(f, [cs EXCEPT ![c].params[k].map = f.kwds[key]],
                            Tail(todo))

\* Model.load_parameters_from_file(filename): np.load opens the file of
\* exactly that name and raises IOError when there is none or when it is
\* no archive; m is [comps, aap]
load_parameters_from_file(m, fs, fn, idx, plot, fails) ==
    IF fn \notin DOMAIN fs \/ ~fs[fn].npz
    THEN [raised |-> TRUE, m |-> m]
    ELSE LET l == load_maps(fs[fn], m.comps, ParamOrder(m.comps))
         IN  IF l.raised
             THEN [raised |-> TRUE, m |-> [m EXCEPT !.comps = l.comps]]
             ELSE [raised |-> FALSE,
                   m |-> charge([m EXCEPT !.comps = l.comps], idx, FALSE,
                                plot, fails)]

\* ------------------------------------------------------------- multifit
NoMask == [given |-> FALSE, shape |-> << >>, data |-> << >>]

Mask(shape, data) == [given |-> TRUE, shape |-> shape, data |-> data]

WrongShapes ==
    { << NavY, NavX >>, << NavX * NavY >>, << NavX, NavY + 1 >> }
        \ { navigation_shape }

MaskChoices ==
    { NoMask }
        \cup { Mask(navigation_shape, d) : d \in [NavPositions -> BOOLEAN] }
        \cup { Mask(s, [x \in IndexSet(s) |-> FALSE]) : s \in WrongShapes }

\* a multifit that never compares the shapes
MaskShapeUnchecked(mask) == FALSE

\* mask is not None and mask.shape != tuple(navigation_shape)
MaskShapeMismatch(mask) == mask.given /\ mask.shape # navigation_shape

\* a count that sees no masked position
masked_elements_none(mask) == 0

\* mask.sum()
masked_elements(mask) ==
    IF ~mask.given THEN 0
    ELSE Cardinality({ x \in DOMAIN mask.data : mask.data[x] })

\* a loop that ignores the mask
MaskIgnored(mask, index) == TRUE

\* mask is None or not mask[index]
MaskAllows(mask, index) ==
    ~mask.given \/ (index \in DOMAIN mask.data /\ ~mask.data[index])

Nd == ndindex(navigation_shape)

\* the options of a multifit call beside mask and charge_only_fixed; autosave
\* is "False", "True" or "other" (a value that is neither, such as 1)
Options(autosave, every, bounded, fitter) ==
    [autosave |-> autosave, every |-> every, bounded |-> bounded,
     fitter |-> fitter]

autosave_every_default == 10

DefaultOptions == Options("False", autosave_every_default, FALSE, "leastsq")

\* the file tempfile.mkstemp(prefix = 'hyperspy_autosave-', suffix = '.npz') makes
TempFile == << "hyperspy_autosave-", ".npz" >>

\* autosave_fn[:-4], cutting the four characters of the extension
strip_npz(fn) == IF EndsNpz(fn) THEN SubSeq(fn, 1, Len(fn) - 1) ELSE fn

\* os.remove(name)
os_remove(fs, name) == [x \in DOMAIN fs \ { name } |-> fs[x]]

\* a multifit that keeps bounded = True for any fitter
bounded_kept(bounded, fitter) == IF bounded THEN "True" ELSE "False"

\* the local bounded after the block "if bounded is True": None once the
\* bound structure is built, False for a fitter that has none
bounded_local(bounded, fitter) ==
    IF ~bounded THEN "False"
    ELSE IF fitter = "mpfit" THEN "None"
    ELSE IF fitter \in { "tnc", "l_bfgs_b" } THEN "None"
    ELSE "False"

\* a loop that stops at a fit that did not converge
fit_aborts_unconverged(converged) == ~converged

\* lines 635-637: the outcome of fit is not looked at, nothing is caught
fit_aborts(converged) == FALSE

\* if autosave is True and i % autosave_every == 0
autosave_due(m) == m.opt.autosave = "True" /\ m.i % m.opt.every = 0

\* the end of one pass of the loop body, lines 639-640; m is the record of
\* the call, fitted tells whether this pass fitted its position
autosave_files(m, fs, cs) ==
    IF autosave_due(m) THEN save_parameters2file(fs, cs, m.fn) ELSE fs

autosave_log(m, fitted) ==
    IF autosave_due(m)
    THEN [m EXCEPT !.saves = Append(@, [i |-> m.i, fitted |-> fitted])]
    ELSE m

MFIdle ==
    [pc |-> "idle", mask |-> NoMask, cof |-> FALSE, k |-> 0, i |-> 0,
     maxval |-> 0, fitcount |-> [pos \in NavPositions |-> 0],
     ncharge |-> 0, nmoves |-> 0, pre |-> << >>, preidx |-> Origin,
     left |-> << >>,
     opt |-> DefaultOptions, fn |-> << >>, bounded |-> "False",
     warned |-> FALSE, fitbounded |-> { }, saves |-> << >>,
     ckpt |-> [n |-> 0, kwds |-> << >>], unconverged |-> "no"]

ModelOf == [comps |-> comps, aap |-> auto_update_plot]

\* multifit(mask, charge_only_fixed, options): everything before the loop
MFBegin(mask, cof, opt) ==
    /\ mf.pc = "idle"
    /\ LET bad == MaskShapeMismatch(mask)
           build == ~bad /\ opt.bounded
       IN  /\ mf' = [mf EXCEPT
                       !.pc = IF bad THEN "error" ELSE "loop",
                       !.mask = mask, !.cof = cof, !.k = 1, !.i = 0,
                       !.maxval = IF bad THEN 0
                                  ELSE NavCount(navigation_shape) - masked_elements(mask),
                       !.pre = comps, !.preidx = indexes,
                       !.opt = opt,
                       !.fn = IF opt.autosave # "False" THEN strip_npz(TempFile)
                              ELSE << >>,
                       !.bounded = IF bad THEN IF opt.bounded THEN "True" ELSE "False"
                                   ELSE bounded_local(opt.bounded, opt.fitter),
                       !.warned = build /\ opt.fitter \notin { "mpfit", "tnc", "l_bfgs_b" }]
           /\ files' = IF opt.autosave # "False"
                       THEN Put(files, TempFile, [npz |-> FALSE, kwds |-> << >>])
                       ELSE files
           /\ mpfit_parinfo' =
                  IF build /\ opt.fitter = "mpfit"
                  THEN [set |-> TRUE, v |-> set_mpfit_parameters_info(<< >>, comps)]
                  ELSE mpfit_parinfo
           /\ free_parameters_boundaries' =
                  IF build /\ opt.fitter # "mpfit" /\ opt.fitter \in { "tnc", "l_bfgs_b" }
                  THEN [set |-> TRUE, v |-> set_boundaries(<< >>, comps)]
                  ELSE free_parameters_boundaries
    /\ UNCHANGED << comps, indexes, auto_update_plot, has_plot, axis,
                    channel_switches, low_loss, convolution_axis, convolved,
                    p0, st, op, ev, edge, jac, backup_channel_switches >>

\* multifit(mask, charge_only_fixed) with every other argument at its default
MFStart(mask, cof) == MFBegin(mask, cof, DefaultOptions)

\* the head of the loop: the next index, fitted or skipped; a skipped index
\* still runs the autosave test that ends the loop body
MFLoop ==
    /\ mf.pc = "loop"
    /\ IF mf.k > Len(Nd)
       THEN /\ mf' = [mf EXCEPT !.pc = "finish"]
            /\ files' = files
       ELSE IF MaskAllows(mf.mask, Nd[mf.k])
            THEN /\ mf' = [mf EXCEPT !.pc = "move"]
                 /\ files' = files
            ELSE /\ mf' = [autosave_log(mf, FALSE) EXCEPT !.k = @ + 1]
                 /\ files' = autosave_files(mf, files, comps)
    /\ UNCHANGED << comps, indexes, auto_update_plot, has_plot, axis,
                    channel_switches, low_loss, convolution_axis, convolved,
                    p0, st, op, ev, free_parameters_boundaries, mpfit_parinfo,
                    edge, jac, backup_channel_switches >>

\* self.axes_manager.set_not_slicing_indexes(index)
MFMove ==
    /\ mf.pc = "move"
    /\ \E fails \in (IF has_plot /\ auto_update_plot THEN BOOLEAN ELSE { FALSE }) :
          LET m == set_not_slicing_indexes(ModelOf, indexes, Nd[mf.k],
                                           has_plot, fails)
          IN  /\ comps' = m.comps
              /\ auto_update_plot' = m.aap
    /\ indexes' = Nd[mf.k]
    /\ mf' = [mf EXCEPT !.pc = "charge", !.nmoves = @ + 1]
    /\ UNCHANGED << has_plot, axis, channel_switches, low_loss,
                    convolution_axis, convolved, p0, st, op, ev, ext >>

\* self.charge(only_fixed = charge_only_fixed)
MFCharge ==
    /\ mf.pc = "charge"
    /\ \E fails \in (IF has_plot /\ auto_update_plot THEN BOOLEAN ELSE { FALSE }) :
          LET m == charge(ModelOf, indexes, mf.cof, has_plot, fails)
          IN  /\ comps' = m.comps
              /\ auto_update_plot' = m.aap
    /\ mf' = [mf EXCEPT !.pc = "fit", !.ncharge = @ + 1]
    /\ UNCHANGED << indexes, has_plot, axis, channel_switches, low_loss,
                    convolution_axis, convolved, p0, st, op, ev, ext >>

\* self.fit(fitter, grad, bounded, ...): a TypeError of _set_p0 ends the
\* whole call; the optimizer returns a vector of vals, converged or not
MFFitWith(vals, outcomes) ==
    /\ mf.pc = "fit"
    /\ LET s == set_p0(comps)
       IN  IF s.raised
           THEN /\ mf' = [mf EXCEPT !.pc = "raised"]
                /\ UNCHANGED << comps, p0 >>
           ELSE \E p \in [1..Len(s.v) -> vals], converged \in outcomes :
                   /\ comps' = fit(comps, indexes, p)
                   /\ p0' = [set |-> TRUE, v |-> p]
                   /\ mf' = [mf EXCEPT
                               !.pc = IF fit_aborts(converged) THEN "raised"
                                      ELSE "progress",
                               !.fitcount[indexes] = @ + 1,
                               !.left = LiveValues(comps'),
                               !.fitbounded = @ \cup { mf.bounded },
                               !.unconverged = IF @ # "no" THEN "continued"
                                               ELSE IF converged THEN "no"
                                               ELSE "yes"]
    /\ UNCHANGED << indexes, auto_update_plot, has_plot, axis, channel_switches,
                    low_loss, convolution_axis, convolved, st, op, ev, ext >>

MFFit == MFFitWith(FitVals, { TRUE })

\* i += 1; pbar.update(i); then the autosave test that ends the loop body
MFProgress ==
    /\ mf.pc = "progress"
    /\ LET m == [mf EXCEPT !.i = @ + 1]
       IN  /\ mf' = [autosave_log(m, TRUE) EXCEPT
                       !.pc = "loop", !.k = @ + 1,
                       !.ckpt = IF m.i % m.opt.every = 0
                                THEN [n |-> m.i,
                                      kwds |-> save_kwds(<< >>, comps, ParamOrder(comps))]
                                ELSE @]
           /\ files' = autosave_files(m, files, comps)
    /\ UNCHANGED << comps, indexes, auto_update_plot, has_plot, axis,
                    channel_switches, low_loss, convolution_axis, convolved,
                    p0, st, op, ev, free_parameters_boundaries, mpfit_parinfo,
                    edge, jac, backup_channel_switches >>

\* pbar.finish(); if autosave is True: os.remove(autosave_fn + '.npz')
MFFinish ==
    /\ mf.pc = "finish"
    /\ mf' = [mf EXCEPT !.pc = "done"]
    /\ files' = IF mf.opt.autosave = "True"
                THEN os_remove(files, Append(mf.fn, ".npz"))
                ELSE files
    /\ UNCHANGED << comps, indexes, auto_update_plot, has_plot, axis,
                    channel_switches, low_loss, convolution_axis, convolved,
                    p0, st, op, ev, free_parameters_boundaries, mpfit_parinfo,
                    edge, jac, backup_channel_switches >>

\* the user interrupts the pass between two positions
MFInterrupt ==
    /\ mf.pc = "loop"
    /\ mf.k > 1
    /\ mf.k <= Len(Nd)
    /\ mf' = [mf EXCEPT !.pc = "interrupted"]
    /\ UNCHANGED << comps, indexes, auto_update_plot, has_plot, axis,
                    channel_switches, low_loss, convolution_axis, convolved,
                    p0, st, op, ev, ext >>

\* ---------------------------------------------------- multifit: claims
Masked(pos) == mf.mask.given /\ mf.mask.shape = navigation_shape /\ mf.mask.data[pos]

\* C1: multifit fits every position where the mask is false exactly once and
\* no position where it is true; the maps at the masked positions keep the
\* values they had before the pass.
C1_FitExactlyUnmasked ==
    mf.pc \in { "loop", "move", "charge", "fit", "progress", "finish", "done" } =>
        \A pos \in NavPositions :
            /\ mf.fitcount[pos] <= 1
            /\ Masked(pos) =>
                   /\ mf.fitcount[pos] = 0
                   /\ MapValues(comps, pos) = MapValues(mf.pre, pos)
            /\ (mf.pc = "done" /\ ~Masked(pos)) => mf.fitcount[pos] = 1

C1_Witness ==
    /\ mf.pc = "done"
    /\ \E pos \in NavPositions : Masked(pos)
    /\ \E pos \in NavPositions :
          /\ ~Masked(pos)
          /\ mf.fitcount[pos] = 1
          /\ MapValues(comps, pos) # MapValues(mf.pre, pos)

\* C2: a mask of another shape than the navigation shape ends the call with
\* the error before the cursor moved, before any charge and any fit: no map,
\* no live value and no position is touched.
C2_MaskShapeErrorFirst ==
    (mf.pc # "idle" /\ mf.mask.given /\ mf.mask.shape # navigation_shape) =>
        /\ mf.pc = "error"
        /\ comps = mf.pre
        /\ indexes = mf.preidx
        /\ mf.nmoves = 0
        /\ mf.ncharge = 0
        /\ \A pos \in NavPositions : mf.fitcount[pos] = 0

C2_Witness ==
    /\ mf.pc = "error"
    /\ mf.mask.given
    /\ mf.mask.shape # navigation_shape

\* C3: with charge_only_fixed = True, at the start of the fit of every
\* position after the first fitted one, the free parameters hold the live
\* values the previous fit left and the other parameters the values of the
\* new position's map.
C3_SeededFromPreviousFit ==
    (mf.pc = "fit" /\ mf.cof /\ mf.left # << >>) =>
        \A c \in DOMAIN comps : \A p \in DOMAIN comps[c].params :
            IF comps[c].params[p].free
            THEN comps[c].params[p].value = mf.left[c][p]
            ELSE comps[c].params[p].value = comps[c].params[p].map[indexes]

\* ------------------------------------------------------- initial states
DefaultAxis == [offset |-> 1, scale |-> 2, size |-> AxisSize]

NoLowLoss == [given |-> FALSE, data |-> << >>, offset |-> 0]

StIdle == [phase |-> "init", snap |-> << >>, dirty |-> FALSE]

OpNone == [name |-> "none", raised |-> FALSE, pre |-> << >>, slices |-> << >>]

EvNone == [done |-> FALSE, nc |-> FALSE, oa |-> FALSE, ok |-> TRUE, out |-> << >>]

\* free_parameters_boundaries = None; mpfit_parinfo not assigned yet
NoBounds == [set |-> FALSE, v |-> << >>]

\* an empty directory: a function with no name in its domain
NoFiles == << >>

EdgeNone == [called |-> FALSE, outcome |-> "none"]

JacNone == [done |-> FALSE, ok |-> TRUE, rows |-> << >>]

\* a model of two components: a free and a fixed parameter, then a fixed one
FitModel(ramp) ==
    << Comp(TRUE, FALSE,
            << Param(TRUE, << 1 >>, IF ramp THEN RampMap(1, 0) ELSE ZeroMap(1)),
               Param(FALSE, << 2 >>, IF ramp THEN RampMap(1, 1) ELSE ZeroMap(1)) >>),
       Comp(TRUE, FALSE,
            << Param(FALSE, << 3 >>, IF ramp THEN RampMap(1, 2) ELSE ZeroMap(1)) >>) >>

\* Model.__init__, the fields every specification starts from
InitCommon ==
    /\ auto_update_plot = FALSE
    /\ axis = DefaultAxis
    /\ low_loss = NoLowLoss
    /\ convolution_axis = [state |-> "unset", v |-> << >>]
    /\ convolved = FALSE
    /\ p0 = [set |-> FALSE, v |-> << >>]
    /\ mf = MFIdle
    /\ st = StIdle
    /\ op = OpNone
    /\ ev = EvNone
    /\ free_parameters_boundaries = NoBounds
    /\ mpfit_parinfo = NoBounds
    /\ files = NoFiles
    /\ edge = EdgeNone
    /\ jac = JacNone
    /\ backup_channel_switches = NoBounds

InitMultifit ==
    /\ InitCommon
    /\ channel_switches = [k \in 1..AxisSize |-> TRUE]
    /\ has_plot = FALSE
    /\ indexes = Origin
    /\ \E ramp \in BOOLEAN : comps = FitModel(ramp)

NextMultifit ==
    \/ \E mask \in MaskChoices, cof \in BOOLEAN : MFStart(mask, cof)
    \/ MFLoop
    \/ MFMove
    \/ MFCharge
    \/ MFFit
    \/ MFProgress
    \/ MFFinish

SpecMultifit == InitMultifit /\ [][NextMultifit]_vars

\* ------------------------------------------------- store and charge
MutVals == { 4, 5 }

PlotFailures == IF has_plot /\ auto_update_plot THEN BOOLEAN ELSE { FALSE }

\* Model.set() at the cursor
StSet ==
    /\ comps' = set(comps, indexes)
    /\ st' = [phase |-> "stored", snap |-> LiveValues(comps), dirty |-> FALSE]
    /\ UNCHANGED << indexes, auto_update_plot, has_plot, axis, channel_switches,
                    low_loss, convolution_axis, convolved, p0, mf, op, ev, ext >>

\* parameter.value = v, the assignment an optimizer or a user makes
StMutate(c, p, v) ==
    /\ comps[c].params[p].value # << v >>
    /\ comps' = [comps EXCEPT ![c].params[p].value = << v >>]
    /\ st' = [st EXCEPT !.phase = IF @ = "charged" THEN "stored" ELSE @]
    /\ UNCHANGED << indexes, auto_update_plot, has_plot, axis, channel_switches,
                    low_loss, convolution_axis, convolved, p0, mf, op, ev, ext >>

\* Model.charge(only_fixed)
StCharge(only_fixed) ==
    /\ \E fails \in PlotFailures :
          LET m == charge(ModelOf, indexes, only_fixed, has_plot, fails)
          IN  /\ comps' = m.comps
              /\ auto_update_plot' = m.aap
    /\ st' = IF only_fixed \/ st.phase = "init"
             THEN st
             ELSE [st EXCEPT !.phase = "charged",
                             !.dirty = (LiveValues(comps) # st.snap)]
    /\ UNCHANGED << indexes, has_plot, axis, channel_switches, low_loss,
                    convolution_axis, convolved, p0, mf, op, ev, ext >>

\* Model.set_auto_update_plot(tof)
StSetAutoUpdatePlot(tof) ==
    /\ tof # auto_update_plot
    /\ LET m == set_auto_update_plot(ModelOf, tof)
       IN  /\ comps' = m.comps
           /\ auto_update_plot' = m.aap
    /\ UNCHANGED << indexes, has_plot, axis, channel_switches, low_loss,
                    convolution_axis, convolved, p0, mf, st, op, ev, ext >>

\* the user moves the cursor (before anything was stored)
StMove(index) ==
    /\ st.phase = "init"
    /\ index # indexes
    /\ \E fails \in PlotFailures :
          LET m == set_not_slicing_indexes(ModelOf, indexes, index, has_plot, fails)
          IN  /\ comps' = m.comps
              /\ auto_update_plot' = m.aap
    /\ indexes' = index
    /\ UNCHANGED << has_plot, axis, channel_switches, low_loss,
                    convolution_axis, convolved, p0, mf, st, op, ev, ext >>

InitStore ==
    /\ InitCommon
    /\ channel_switches = [k \in 1..AxisSize |-> TRUE]
    /\ has_plot \in BOOLEAN
    /\ indexes = Origin
    /\ \E ramp \in BOOLEAN : comps = FitModel(ramp)

NextStore ==
    \/ StSet
    \/ \E c \in DOMAIN comps : \E p \in DOMAIN comps[c].params :
          \E v \in MutVals : StMutate(c, p, v)
    \/ \E only_fixed \in BOOLEAN : StCharge(only_fixed)
    \/ \E tof \in BOOLEAN : StSetAutoUpdatePlot(tof)
    \/ \E index \in NavPositions : StMove(index)

SpecStore == InitStore /\ [][NextStore]_vars

\* C4: at one cursor position, after set(), whatever the live values are
\* changed to, charge() with only_fixed = False gives every parameter the
\* live value it had when set() was called.
C4_ChargeRestoresStored ==
    st.phase = "charged" => LiveValues(comps) = st.snap

C4_Witness ==
    /\ st.phase = "charged"
    /\ st.dirty
    /\ LiveValues(comps) = st.snap

\* --------------------------------------------- the free-parameter vector
\* a component of a scalar and a two-element parameter; every element of
\* every component has a value of its own
VectorComp(i, active, conv, free1, free2) ==
    Comp(active, conv,
         << Param(free1, << 10 * i + 1 >>, ZeroMap(1)),
            Param(free2, << 10 * i + 2, 10 * i + 3 >>, ZeroMap(2)) >>)

VectorModels ==
    UNION { { [i \in 1..n |-> VectorComp(i, f[i][1], FALSE, f[i][2], f[i][3])] :
                f \in [1..n -> BOOLEAN \X BOOLEAN \X BOOLEAN] } :
            n \in 0..MaxComps }

\* Model._set_p0()
P0SetP0 ==
    /\ LET s == set_p0(comps)
       IN  /\ p0' = IF s.raised THEN p0 ELSE [set |-> TRUE, v |-> s.v]
           /\ op' = [name |-> "set_p0", raised |-> s.raised, pre |-> comps,
                     slices |-> << >>]
    /\ UNCHANGED << comps, indexes, auto_update_plot, has_plot, axis,
                    channel_switches, low_loss, convolution_axis, convolved,
                    mf, st, ev, ext >>

\* Model._charge_p0(), right after the _set_p0() that built p0
P0ChargeP0 ==
    /\ op.name = "set_p0"
    /\ ~op.raised
    /\ comps' = charge_p0(comps, p0.v)
    /\ op' = [name |-> "charge_p0", raised |-> FALSE, pre |-> comps,
              slices |-> charge_p0_slices(comps, p0.v)]
    /\ UNCHANGED << p0, indexes, auto_update_plot, has_plot, axis,
                    channel_switches, low_loss, convolution_axis, convolved,
                    mf, st, ev, ext >>

\* component.active = not component.active
P0Toggle(c) ==
    /\ comps' = [comps EXCEPT ![c].active = ~@]
    /\ op' = [name |-> "toggle", raised |-> FALSE, pre |-> comps, slices |-> << >>]
    /\ UNCHANGED << p0, indexes, auto_update_plot, has_plot, axis,
                    channel_switches, low_loss, convolution_axis, convolved,
                    mf, st, ev, ext >>

InitVector ==
    /\ InitCommon
    /\ channel_switches = [k \in 1..AxisSize |-> TRUE]
    /\ has_plot = FALSE
    /\ indexes = Origin
    /\ comps \in VectorModels

NextVector ==
    \/ P0SetP0
    \/ P0ChargeP0
    \/ \E c \in DOMAIN comps : P0Toggle(c)

SpecVector == InitVector /\ [][NextVector]_vars

RECURSIVE SumSeq(_)
SumSeq(q) == IF q = << >> THEN 0 ELSE Head(q) + SumSeq(Tail(q))

\* the elements of the free parameters of one component / of the active ones
FreeElements(c) ==
    SumSeq([k \in DOMAIN c.params |->
                IF c.params[k].free THEN c.params[k].nel ELSE 0])

ActiveFreeElements(cs) ==
    SumSeq([i \in DOMAIN cs |-> IF cs[i].active THEN FreeElements(cs[i]) ELSE 0])

\* the values of the free parameters of one component, in order
FreeValues(c) ==
    Concat([k \in DOMAIN c.params |->
                IF c.params[k].free THEN c.params[k].value ELSE << >>])

\* C5: in every model state, with no free parameter at all included, _set_p0
\* produces a vector whose length is the number of elements of the free
\* parameters of the active components.
C5_P0LengthAlways ==
    op.name = "set_p0" =>
        /\ ~op.raised
        /\ p0.set
        /\ Len(p0.v) = ActiveFreeElements(comps)

\* C6: _charge_p0 hands each active component the slice of p0 that _set_p0
\* built from its free parameters, so _set_p0 followed by _charge_p0 leaves
\* every live value as it was, and both select the same components.
C6_ChargeP0UsesAssemblyOrder ==
    op.name = "charge_p0" =>
        /\ comps = op.pre
        /\ { op.slices[k].c : k \in DOMAIN op.slices }
               = { i \in DOMAIN op.pre : p0_takes(op.pre[i]) }
        /\ \A k \in DOMAIN op.slices :
               op.slices[k].piece = FreeValues(op.pre[op.slices[k].c])

C6_Witness ==
    /\ op.name = "charge_p0"
    /\ Len(comps) >= 2
    /\ ~comps[1].active
    /\ FreeElements(comps[1]) > 0
    /\ comps[2].active
    /\ FreeElements(comps[2]) = 3
    /\ op.slices = << [c |-> 2, piece |-> << 21, 22, 23 >>] >>

\* ------------------------------------------------------ axes, low loss
\* DataAxis.axis: the values of the axis
AxisValues(ax) == [k \in 1..ax.size |-> ax.offset + ax.scale * (k - 1)]

\* hyperspy.axes.generate_axis(offset, scale, size, offset_index): an axis
\* of that size whose element offset_index has the value offset
generate_axis(offset, scale, size, offset_index) ==
    [k \in 1..size |-> offset - offset_index * scale + scale * (k - 1)]

\* DataAxis.value2index(value) on the low-loss axis (of scale 1): the nearest
\* index, kept inside the axis
value2index(ll, value) ==
    LET i == value - ll.offset
    IN  IF i < 0 THEN 0 ELSE IF i > Len(ll.data) - 1 THEN Len(ll.data) - 1 ELSE i

\* one sample too many
conv_dimension_long(ax, ll) == ax.size + Len(ll.data)

\* dimension = self.axis.size + ll_axis.size - 1
conv_dimension(ax, ll) == ax.size + Len(ll.data) - 1

\* the knot one channel off
knot_position_off(ll) == Len(ll.data) - value2index(ll, 0)

\* knot_position = ll_axis.size - ll_axis.value2index(0) - 1
knot_position(ll) == Len(ll.data) - value2index(ll, 0) - 1

\* Model.set_convolution_axis()
set_convolution_axis(ax, ll) ==
    generate_axis(ax.offset, ax.scale, conv_dimension(ax, ll), knot_position(ll))

\* the setter of Model.low_loss
EvSetLowLoss(value) ==
    /\ value # low_loss
    /\ low_loss' = value
    /\ IF value.given
       THEN /\ convolution_axis' =
                   [state |-> "set", v |-> set_convolution_axis(axis, value)]
            /\ convolved' = TRUE
       ELSE /\ convolution_axis' = [state |-> "none", v |-> << >>]
            /\ convolved' = FALSE
    /\ ev' = [done |-> FALSE, nc |-> FALSE, oa |-> FALSE, ok |-> TRUE, out |-> << >>]
    /\ UNCHANGED << comps, indexes, auto_update_plot, has_plot, axis,
                    channel_switches, p0, mf, st, op, ext >>

\* ----------------------------------------------------------- evaluation
RECURSIVE Power(_, _)
Power(x, n) == IF n = 0 THEN 1 ELSE x * Power(x, n - 1)

\* Component.function(axis) of a polynomial component: its parameters'
\* elements are the coefficients, the value at x depends on x alone
function(c, xs) ==
    LET coef == Concat([k \in DOMAIN c.params |-> c.params[k].value])
    IN  [n \in DOMAIN xs |->
            SumSeq([j \in DOMAIN coef |-> coef[j] * Power(xs[n], j - 1)])]

Failed == [ok |-> FALSE, out |-> << >>]

Value(xs) == [ok |-> TRUE, out |-> xs]

\* a[mask] of numpy with a boolean mask: the lengths must agree
RECURSIVE Pick(_, _)
Pick(xs, sw) ==
    IF xs = << >> THEN << >>
    ELSE (IF Head(sw) THEN << Head(xs) >> ELSE << >>) \o Pick(Tail(xs), Tail(sw))

BoolIndex(xs, sw) == IF Len(xs) # Len(sw) THEN Failed ELSE Value(Pick(xs, sw))

\* a + b of numpy: elementwise, a one-element array is stretched
ArrayAdd(a, b) ==
    IF Len(a) = Len(b) THEN Value([k \in DOMAIN a |-> a[k] + b[k]])
    ELSE IF Len(b) = 1 THEN Value([k \in DOMAIN a |-> a[k] + b[1]])
    ELSE IF Len(a) = 1 THEN Value([k \in DOMAIN b |-> a[1] + b[k]])
    ELSE Failed

\* np.convolve(a, v, mode = "valid"): the lags where the shorter array lies
\* inside the longer one
convolve_valid(a, v) ==
    LET long == IF Len(a) >= Len(v) THEN a ELSE v
        short == IF Len(a) >= Len(v) THEN v ELSE a
        S == Len(short)
    IN  IF S = 0 THEN Failed
        ELSE Value([k \in 1..(Len(long) - S + 1) |->
                        SumSeq([j \in 1..S |-> short[j] * long[k + S - j]])])

\* a call that sums every component, whatever its flag
call_takes_all(c, onlyactive) == TRUE

\* __call__: "if onlyactive: if component.active:"
call_takes(c, onlyactive) == ~onlyactive \/ c.active

\* the sum over the components of one branch
RECURSIVE SumComponents(_, _, _, _)
SumComponents(cs, xs, onlyactive, part) ==
    IF cs = << >> THEN [n \in DOMAIN xs |-> 0]
    ELSE LET rest == SumComponents(Tail(cs), xs, onlyactive, part)
             c == Head(cs)
             mine == call_takes(c, onlyactive)
                        /\ (part = "all" \/ (part = "convolved") = c.convolved)
         IN  IF mine
             THEN [n \in DOMAIN xs |-> function(c, xs)[n] + rest[n]]
             ELSE rest

\* Model.__call__(non_convolved, onlyactive); m holds the fields it reads
call(m, non_convolved, onlyactive) ==
    IF m.convolved = FALSE \/ non_convolved = TRUE
    THEN LET picked == BoolIndex(AxisValues(m.axis), m.channel_switches)
         IN  IF ~picked.ok THEN Failed
             ELSE Value(SumComponents(m.comps, picked.out, onlyactive, "all"))
    ELSE IF m.convolution_axis.state # "set" THEN Failed
    ELSE LET sum_convolved == SumComponents(m.comps, m.convolution_axis.v,
                                            onlyactive, "convolved")
             sum_ == SumComponents(m.comps, AxisValues(m.axis),
                                   onlyactive, "plain")
             conv == convolve_valid(m.low_loss.data, sum_convolved)
             to_return == IF conv.ok THEN ArrayAdd(sum_, conv.out) ELSE Failed
         IN  IF ~to_return.ok THEN Failed
             ELSE BoolIndex(to_return.out, m.channel_switches)

Evaluated ==
    [comps |-> comps, axis |-> axis, channel_switches |-> channel_switches,
     low_loss |-> low_loss, convolution_axis |-> convolution_axis,
     convolved |-> convolved]

EvCall(non_convolved, onlyactive) ==
    /\ LET r == call(Evaluated, non_convolved, onlyactive)
       IN  ev' = [done |-> TRUE, nc |-> non_convolved, oa |-> onlyactive,
                  ok |-> r.ok, out |-> r.out]
    /\ UNCHANGED << comps, indexes, auto_update_plot, has_plot, axis,
                    channel_switches, low_loss, convolution_axis, convolved,
                    p0, mf, st, op, ext >>

LowLossChoices ==
    { [given |-> TRUE, data |-> << 1 >>, offset |-> 0],
      [given |-> TRUE, data |-> << 1 >>, offset |-> 3],
      [given |-> TRUE, data |-> << 1, 2 >>, offset |-> 0],
      [given |-> TRUE, data |-> << 2, 1 >>, offset |-> -1] }

EvalModels ==
    UNION { { [i \in 1..n |-> VectorComp(i, f[i][1], f[i][2], TRUE, FALSE)] :
                f \in [1..n -> BOOLEAN \X BOOLEAN] } :
            n \in 0..MaxComps }

InitEval ==
    /\ InitCommon
    /\ has_plot = FALSE
    /\ indexes = Origin
    /\ channel_switches \in [1..AxisSize -> BOOLEAN]
    /\ comps \in EvalModels

NextEval ==
    \/ \E value \in LowLossChoices \cup { NoLowLoss } : EvSetLowLoss(value)
    \/ \E nc \in BOOLEAN, oa \in BOOLEAN : EvCall(nc, oa)
    \/ P0SetP0

SpecEval == InitEval /\ [][NextEval]_vars

\* ----------------------------------------------------- evaluation: claims
\* the model without its inactive components
ActiveOnly(cs) == SelectSeq(cs, LAMBDA c : c.active)

Selected(sw) == Cardinality({ k \in DOMAIN sw : sw[k] })

\* C7 as stated: whatever the arguments of __call__, the result is the one
\* of the model without its inactive components, and so is the outcome of
\* _set_p0.
C7_InactiveNeverContributes ==
    /\ ev.done =>
           [ok |-> ev.ok, out |-> ev.out]
               = call([Evaluated EXCEPT !.comps = ActiveOnly(comps)], ev.nc, ev.oa)
    /\ op.name = "set_p0" =>
           /\ op.raised = set_p0(ActiveOnly(op.pre)).raised
           /\ ~op.raised => p0.v = set_p0(ActiveOnly(op.pre)).v

\* C7 amended: with onlyactive = True, in either branch, the result of
\* __call__ is the one of the model without its inactive components; the
\* outcome of _set_p0 is the one of the model without them.
C7_InactiveOutWhenOnlyActive ==
    /\ (ev.done /\ ev.oa) =>
           [ok |-> ev.ok, out |-> ev.out]
               = call([Evaluated EXCEPT !.comps = ActiveOnly(comps)], ev.nc, ev.oa)
    /\ op.name = "set_p0" =>
           /\ op.raised = set_p0(ActiveOnly(op.pre)).raised
           /\ ~op.raised => p0.v = set_p0(ActiveOnly(op.pre)).v

C7_Witness ==
    /\ ev.done /\ ev.oa /\ ~ev.nc /\ ev.ok
    /\ convolved
    /\ \E i \in DOMAIN comps : ~comps[i].active /\ comps[i].convolved
    /\ \E i \in DOMAIN comps : comps[i].active
    /\ Selected(channel_switches) > 0
    /\ op.name = "set_p0" /\ ~op.raised

\* C8: the array __call__ returns has as many elements as channel_switches
\* selects, in the non-convolved and in the convolved branch.
C8_CallLength ==
    ev.done => (ev.ok /\ Len(ev.out) = Selected(channel_switches))

C8_Witness ==
    /\ ev.done /\ ~ev.nc /\ convolved
    /\ Len(low_loss.data) = 2
    /\ Selected(channel_switches) = 2
    /\ Len(ev.out) = 2
    /\ \E i \in DOMAIN comps : comps[i].convolved

\* C10: with a response of one channel of value 1, the convolved call
\* returns what the non-convolved call returns.
C10_UnitImpulse ==
    (ev.done /\ ~ev.nc /\ low_loss.given /\ low_loss.data = << 1 >>) =>
        [ok |-> ev.ok, out |-> ev.out] = call(Evaluated, TRUE, ev.oa)

C10_Witness ==
    /\ ev.done /\ ~ev.nc /\ ev.ok
    /\ low_loss.given /\ low_loss.data = << 1 >> /\ low_loss.offset = 3
    /\ convolved
    /\ \E i \in DOMAIN comps : comps[i].convolved /\ comps[i].active
    /\ \E i \in DOMAIN comps : ~comps[i].convolved /\ comps[i].active
    /\ Selected(channel_switches) = 2

\* ------------------------------------------------- the main axis changes
\* the main axis is the spectrum's own axis object (Model.__init__ keeps a
\* reference to it): the spectrum is cropped or rebinned, axis.size changes
AxisChange(n) ==
    /\ n # axis.size
    /\ axis' = [axis EXCEPT !.size = n]
    /\ ev' = [done |-> FALSE, nc |-> FALSE, oa |-> FALSE, ok |-> TRUE, out |-> << >>]
    /\ UNCHANGED << comps, indexes, auto_update_plot, has_plot, channel_switches,
                    low_loss, convolution_axis, convolved, p0, mf, st, op, ext >>

NextAxis ==
    \/ \E value \in LowLossChoices \cup { NoLowLoss } : EvSetLowLoss(value)
    \/ \E n \in 1..AxisSize : AxisChange(n)
    \/ \E nc \in BOOLEAN, oa \in BOOLEAN : EvCall(nc, oa)

SpecAxis == InitEval /\ [][NextAxis]_vars

\* C9: whenever a low-loss spectrum is attached, after any low-loss
\* assignments and changes of the main axis, convolution_axis has
\* axis.size + (low-loss size) - 1 elements, and then the "valid" convolution
\* of __call__ gives as many samples as the axis has.
C9_ConvolutionAxisLength ==
    low_loss.given =>
        /\ convolution_axis.state = "set"
        /\ Len(convolution_axis.v) = axis.size + Len(low_loss.data) - 1
        /\ \A oa \in BOOLEAN :
               LET sum_convolved == SumComponents(comps, convolution_axis.v,
                                                  oa, "convolved")
                   conv == convolve_valid(low_loss.data, sum_convolved)
               IN  conv.ok /\ Len(conv.out) = axis.size

\* ----------------------------------------- bound structures: operations
BoundChoices == { << >>, << 0 >> } \X { << >>, << 9 >> }

\* a component of a scalar and a two-element parameter with the bounds b1, b2
BoundComp(i, active, free1, free2, b1, b2) ==
    LET c == VectorComp(i, active, FALSE, free1, free2)
    IN  [c EXCEPT !.params[1].bmin = b1[1], !.params[1].bmax = b1[2],
                  !.params[2].bmin = b2[1], !.params[2].bmax = b2[2]]

BoundModels ==
    UNION { { [i \in 1..n |->
                  BoundComp(i, f[i][1], f[i][2], f[i][3], b, << b[2], b[1] >>)] :
                f \in [1..n -> BOOLEAN \X BOOLEAN \X BOOLEAN], b \in BoundChoices } :
            n \in 1..MaxComps }

\* Model.set_boundaries()
BSetBoundaries ==
    /\ free_parameters_boundaries' = [set |-> TRUE, v |-> set_boundaries(<< >>, comps)]
    /\ op' = [name |-> "set_boundaries", raised |-> FALSE, pre |-> comps,
              slices |-> << >>]
    /\ UNCHANGED << comps, indexes, auto_update_plot, has_plot, axis,
                    channel_switches, low_loss, convolution_axis, convolved,
                    p0, mf, st, ev, mpfit_parinfo, files, edge, jac,
                    backup_channel_switches >>

\* Model.set_mpfit_parameters_info()
BSetMpfitParametersInfo ==
    /\ mpfit_parinfo' = [set |-> TRUE, v |-> set_mpfit_parameters_info(<< >>, comps)]
    /\ op' = [name |-> "set_mpfit_parameters_info", raised |-> FALSE,
              pre |-> comps, slices |-> << >>]
    /\ UNCHANGED << comps, indexes, auto_update_plot, has_plot, axis,
                    channel_switches, low_loss, convolution_axis, convolved,
                    p0, mf, st, ev, free_parameters_boundaries, files, edge, jac,
                    backup_channel_switches >>

InitBounds ==
    /\ InitCommon
    /\ channel_switches = [k \in 1..AxisSize |-> TRUE]
    /\ has_plot = FALSE
    /\ indexes = Origin
    /\ comps \in BoundModels

NextBounds ==
    \/ BSetBoundaries
    \/ BSetMpfitParametersInfo
    \/ P0SetP0

SpecBounds == InitBounds /\ [][NextBounds]_vars

\* the (bmin, bmax) pair of the parameter that owns each scalar slot of p0
SlotPairs(cs) ==
    Concat([c \in DOMAIN cs |->
        IF ~cs[c].active THEN << >>
        ELSE Concat([k \in DOMAIN cs[c].params |->
                 IF cs[c].params[k].free
                 THEN [j \in 1..cs[c].params[k].nel |->
                          [min |-> cs[c].params[k].bmin, max |-> cs[c].params[k].bmax]]
                 ELSE << >>])])

\* the structure has one entry per slot of p0, in p0 order, and a side
\* without a bound is unconstrained
BoundariesPerSlot ==
    free_parameters_boundaries.set =>
        free_parameters_boundaries.v = SlotPairs(comps)

ParinfoPerSlot ==
    mpfit_parinfo.set =>
        /\ Len(mpfit_parinfo.v) = Len(SlotPairs(comps))
        /\ \A k \in DOMAIN mpfit_parinfo.v :
               LET e == mpfit_parinfo.v[k]
                   b == SlotPairs(comps)[k]
               IN  /\ e.limited = << b.min # << >>, b.max # << >> >>
                   /\ e.limited[1] => e.limits[1] = b.min[1]
                   /\ e.limited[2] => e.limits[2] = b.max[1]

\* C12: the bound structure of each fitter that supports bounding,
\* free_parameters_boundaries and mpfit_parinfo, has one entry per scalar
\* slot of p0, in p0 order, also when a free parameter has several elements;
\* a bound of None leaves its side unconstrained.
C12_BoundsPerSlot ==
    /\ p0.set => Len(p0.v) = Len(SlotPairs(comps))
    /\ BoundariesPerSlot
    /\ ParinfoPerSlot

\* ------------------------------------ multifit with all of its options
PassFitVals == { 7 }

Fitters == { "leastsq", "mpfit", "tnc", "l_bfgs_b" }

PassOptions ==
    { Options("False", autosave_every_default, TRUE, f) : f \in Fitters }
        \cup { Options(a, e, FALSE, "leastsq") :
                  a \in { "True", "other" }, e \in 1..MaxEvery }

InitPass ==
    /\ InitCommon
    /\ channel_switches = [k \in 1..AxisSize |-> TRUE]
    /\ has_plot = FALSE
    /\ indexes = Origin
    /\ comps = FitModel(TRUE)

\* no mask, one position masked, every position masked
PassMasks ==
    { NoMask }
        \cup { Mask(navigation_shape, [x \in NavPositions |-> x = q]) :
                  q \in NavPositions }
        \cup { Mask(navigation_shape, [x \in NavPositions |-> TRUE]) }

NextPass ==
    \/ \E mask \in PassMasks, opt \in PassOptions : MFBegin(mask, FALSE, opt)
    \/ MFLoop
    \/ MFMove
    \/ MFCharge
    \/ MFFitWith(PassFitVals, BOOLEAN)
    \/ MFProgress
    \/ MFFinish
    \/ MFInterrupt

SpecPass == InitPass /\ [][NextPass]_vars

Unsupported == mf.opt.bounded /\ mf.opt.fitter \notin { "mpfit", "tnc", "l_bfgs_b" }

AllUnmaskedFitted == \A pos \in NavPositions : ~Masked(pos) => mf.fitcount[pos] = 1

\* C11: multifit with bounded = True and a fitter other than mpfit, tnc and
\* l_bfgs_b emits the message, fits every unmasked position with
\* bounded = False, builds no bound structure and reaches its end.
C11_BoundingDegrades ==
    (mf.pc \notin { "idle", "error" } /\ Unsupported) =>
        /\ mf.warned
        /\ mf.fitbounded \subseteq { "False" }
        /\ ~free_parameters_boundaries.set
        /\ ~mpfit_parinfo.set
        /\ mf.pc # "raised"
        /\ mf.pc = "done" => AllUnmaskedFitted

C11_Witness ==
    /\ mf.pc = "done"
    /\ Unsupported
    /\ mf.warned
    /\ mf.fitbounded = { "False" }
    /\ \E pos \in NavPositions : mf.fitcount[pos] = 1

\* C13: when multifit was called with autosave other than False and has
\* returned normally, the checkpoint file it created is gone.
C13_CheckpointRemoved ==
    (mf.pc = "done" /\ mf.opt.autosave # "False") => TempFile \notin DOMAIN files

\* C14: with autosave on and interval K, the maps are saved once each time
\* the count of fitted positions reaches a positive multiple of K and at no
\* other step: not at a masked position, not before the first fit.
C14_SavedAtMultiplesOnly ==
    mf.opt.autosave = "True" =>
        /\ \A j \in DOMAIN mf.saves :
               /\ mf.saves[j].fitted
               /\ mf.saves[j].i > 0
               /\ mf.saves[j].i % mf.opt.every = 0
        /\ \A j1, j2 \in DOMAIN mf.saves :
               mf.saves[j1].i = mf.saves[j2].i => j1 = j2
        /\ mf.pc \in { "loop", "finish", "done", "interrupted" } =>
               \A n \in 1..mf.i :
                   n % mf.opt.every = 0 => \E j \in DOMAIN mf.saves : mf.saves[j].i = n

\* the maps of the visited positions hold the fitted values, the others the
\* values before the pass
InterruptedMaps ==
    \A pos \in NavPositions : \A c \in DOMAIN comps : \A k \in DOMAIN comps[c].params :
        LET now == comps[c].params[k].map[pos]
            before == mf.pre[c].params[k].map[pos]
        IN  IF mf.fitcount[pos] = 1 /\ comps[c].params[k].free
            THEN \A e \in DOMAIN now : now[e] \in PassFitVals
            ELSE now = before

Archive(cs) == [npz |-> TRUE, kwds |-> save_kwds(<< >>, cs, ParamOrder(cs))]

\* C15 as stated: after an interruption between two positions with n fitted
\* positions, the checkpoint file of a pass with autosave on holds the maps
\* of the moment the count was the largest multiple of autosave_every not
\* above n (the maps before the pass when that multiple is 0).
C15_InterruptedCheckpointAlways ==
    mf.pc = "interrupted" =>
        /\ InterruptedMaps
        /\ mf.opt.autosave # "False" =>
               /\ TempFile \in DOMAIN files
               /\ files[TempFile] =
                      IF mf.i >= mf.opt.every
                      THEN [npz |-> TRUE, kwds |-> mf.ckpt.kwds]
                      ELSE Archive(mf.pre)

\* what the file holds in every case: with autosave = True and at least
\* autosave_every fitted positions, the maps of the moment the count was the
\* largest multiple of autosave_every not above n; with fewer fitted
\* positions it is empty as created or holds the maps before the pass; with
\* a value of autosave that is neither True nor False it stays empty
CheckpointAfterKFits ==
    mf.pc = "interrupted" =>
        /\ mf.opt.autosave # "False" => TempFile \in DOMAIN files
        /\ mf.opt.autosave = "True" =>
               IF mf.i >= mf.opt.every
               THEN /\ mf.ckpt.n = (mf.i \div mf.opt.every) * mf.opt.every
                    /\ files[TempFile] = [npz |-> TRUE, kwds |-> mf.ckpt.kwds]
               ELSE files[TempFile] \in { [npz |-> FALSE, kwds |-> << >>],
                                          Archive(mf.pre) }
        /\ mf.opt.autosave = "other" =>
               files[TempFile] = [npz |-> FALSE, kwds |-> << >>]

FileNames == { << "f" >>, << "f", ".npz" >> }

\* a component of two one-element parameters with maps already filled;
\* naming is "plain" (c, p1, p2), "spaced" (names with capitals and blanks)
\* or "clash" (two parameter names that differ only by case)
FileComp(i, naming) ==
    LET c == Comp(TRUE, FALSE,
                  << Param(TRUE, << 10 * i + 1 >>, RampMap(1, 3 * i + 1)),
                     Param(FALSE, << 10 * i + 2 >>, RampMap(1, 3 * i + 2)) >>)
    IN  CASE naming = "plain" -> c
          [] naming = "spaced" ->
                [c EXCEPT !.name = << "A", " ", "c" >>,
                          !.params[1].name = << "P", " ", "1" >>,
                          !.params[2].name = << "p", "_", "2" >>]
          [] OTHER ->
                [c EXCEPT !.params[1].name = << "A" >>,
                          !.params[2].name = << "a" >>]

FileModels ==
    { [i \in 1..n |-> FileComp(i, naming)] :
        n \in 1..MaxComps, naming \in { "plain", "spaced", "clash" } }

\* every map of the model
AllMaps(cs) ==
    [c \in DOMAIN cs |-> [k \in DOMAIN cs[c].params |-> cs[c].params[k].map]]

\* Model.save_parameters2file(fn)
FSave(fn) ==
    /\ st.phase = "init"
    /\ files' = save_parameters2file(files, comps, fn)
    /\ st' = [phase |-> "saved", snap |-> AllMaps(comps), dirty |-> FALSE,
              fn |-> fn]
    /\ UNCHANGED << comps, indexes, auto_update_plot, has_plot, axis,
                    channel_switches, low_loss, convolution_axis, convolved,
                    p0, mf, op, ev, free_parameters_boundaries, mpfit_parinfo,
                    edge, jac, backup_channel_switches >>

\* the map of one parameter and its live value are overwritten after the save
FMutate(c, k, v) ==
    /\ st.phase = "saved"
    /\ c \in DOMAIN comps
    /\ comps[c].params[k].value # << v >>
    /\ comps' = [comps EXCEPT ![c].params[k].value = << v >>,
                              ![c].params[k].map = [pos \in NavPositions |-> << v >>]]
    /\ st' = [st EXCEPT !.dirty = TRUE]
    /\ UNCHANGED << indexes, auto_update_plot, has_plot, axis, channel_switches,
                    low_loss, convolution_axis, convolved, p0, mf, op, ev, ext >>

\* the cursor is somewhere else when the file is loaded
FMove(index) ==
    /\ st.phase = "saved"
    /\ index # indexes
    /\ indexes' = index
    /\ comps' = set_not_slicing_indexes(ModelOf, indexes, index, has_plot, FALSE).comps
    /\ UNCHANGED << auto_update_plot, has_plot, axis, channel_switches,
                    low_loss, convolution_axis, convolved, p0, mf, st, op, ev, ext >>

\* Model.load_parameters_from_file(fn) with the file name given to the save
FLoad ==
    /\ st.phase = "saved"
    /\ LET l == load_parameters_from_file(ModelOf, files, st.fn, indexes,
                                          has_plot, FALSE)
       IN  /\ comps' = l.m.comps
           /\ op' = [name |-> "load", raised |-> l.raised, pre |-> comps,
                     slices |-> << >>]
    /\ st' = [st EXCEPT !.phase = "loaded"]
    /\ UNCHANGED << indexes, auto_update_plot, has_plot, axis, channel_switches,
                    low_loss, convolution_axis, convolved, p0, mf, ev, ext >>

InitFile ==
    /\ InitCommon
    /\ channel_switches = [k \in 1..AxisSize |-> TRUE]
    /\ has_plot = FALSE
    /\ indexes = Origin
    /\ comps \in FileModels

NextFile ==
    \/ \E fn \in FileNames : FSave(fn)
    \/ \E c \in 1..MaxComps, k \in 1..2 : FMutate(c, k, 5)
    \/ \E index \in NavPositions : FMove(index)
    \/ FLoad

SpecFile == InitFile /\ [][NextFile]_vars

\* C17: save_parameters2file(f), any change of maps and live values, then
\* load_parameters_from_file(f) with the same name gives every parameter the
\* map that was saved, its own, and charges the live values from the maps at
\* the current position.
C17_SaveLoadRoundTrip ==
    st.phase = "loaded" =>
        /\ ~op.raised
        /\ AllMaps(comps) = st.snap
        /\ LiveValues(comps) = MapValues(comps, indexes)

\* the round trip for a file name that ends in .npz and parameter names
\* that stay distinct in lower case
RoundTripNpzDistinct ==
    (st.phase = "loaded" /\ EndsNpz(st.fn)
       /\ \A c \in DOMAIN comps :
              lower_replace(comps[c].params[1].name)
                  # lower_replace(comps[c].params[2].name)) =>
        /\ ~op.raised
        /\ AllMaps(comps) = st.snap
        /\ LiveValues(comps) = MapValues(comps, indexes)

\* ------------------------------------------ adding and removing components
\* a component not yet in any model: its parameters have no map
NewComp(i, active) ==
    LET c == VectorComp(i, active, FALSE, TRUE, FALSE)
    IN  [c EXCEPT !.params = [k \in DOMAIN c.params |->
                                 [c.params[k] EXCEPT !.map = << >>]]]

NewComps == { NewComp(i, active) : i \in 1..MaxComps, active \in BOOLEAN }

\* Component.create_arrays(navigation_shape): every parameter gets a map of
\* zeros over the navigation shape
create_arrays(c, shape) ==
    [c EXCEPT !.params = [k \in DOMAIN c.params |->
        [c.params[k] EXCEPT
            !.map = [pos \in IndexSet(shape) |-> [e \in 1..c.params[k].nel |-> 0]]]]]

\* Model._touch -> connect_parameters2update_plot
touch(cs) == SetConnection(cs, FALSE)

\* Model.append(object)
model_append(cs, object) ==
    [raised |-> FALSE,
     comps |-> touch(Append(cs, create_arrays(object, navigation_shape)))]

\* Model.insert(object): list.insert(self, object) lacks the index argument
\* and raises TypeError after the arrays of object were created
model_insert(cs, object) == [raised |-> TRUE, comps |-> cs]

\* Model.extend(iterable): the loop consumes the iterable, so that
\* list.extend gets nothing from one that can be iterated only once
model_extend(cs, objects, oneshot) ==
    [raised |-> FALSE,
     comps |-> touch(cs \o (IF oneshot THEN << >>
                            ELSE [k \in DOMAIN objects |->
                                     create_arrays(objects[k], navigation_shape)]))]

\* Model.remove(object): the first member equal to it
model_remove(cs, k) ==
    [raised |-> FALSE,
     comps |-> touch(SubSeq(cs, 1, k - 1) \o SubSeq(cs, k + 1, Len(cs)))]

\* one call of append, insert, extend or remove; given are the components
\* handed to it
ListCall(name, given, r) ==
    /\ comps' = r.comps
    /\ op' = [name |-> name, raised |-> r.raised, pre |-> comps, slices |-> given]
    /\ UNCHANGED << indexes, auto_update_plot, has_plot, axis, channel_switches,
                    low_loss, convolution_axis, convolved, p0, mf, st, ev, ext >>

LAppend(c) ==
    /\ Len(comps) < MaxComps
    /\ ListCall("append", << c >>, model_append(comps, c))

LInsert(c) ==
    /\ Len(comps) < MaxComps
    /\ ListCall("insert", << c >>, model_insert(comps, c))

LExtend(objects, oneshot) ==
    /\ Len(comps) + Len(objects) <= MaxComps
    /\ ListCall("extend", objects, model_extend(comps, objects, oneshot))

LRemove(k) ==
    /\ k \in DOMAIN comps
    /\ ListCall("remove", << comps[k] >>, model_remove(comps, k))

InitList ==
    /\ InitCommon
    /\ channel_switches = [k \in 1..AxisSize |-> TRUE]
    /\ has_plot = FALSE
    /\ indexes = Origin
    /\ comps = << >>

NextList ==
    \/ \E c \in NewComps : LAppend(c)
    \/ \E c \in NewComps : LInsert(c)
    \/ \E n \in 1..MaxComps, oneshot \in BOOLEAN :
          \E objects \in [1..n -> NewComps] : LExtend(objects, oneshot)
    \/ \E k \in 1..MaxComps : LRemove(k)

SpecList == InitList /\ [][NextList]_vars

\* every member of the model has maps over the navigation shape
MembersAllocated ==
    \A c \in DOMAIN comps : \A k \in DOMAIN comps[c].params :
        DOMAIN comps[c].params[k].map = NavPositions

\* C18: append, insert and extend (with any iterable) each leave every given
\* component a member of the model with maps allocated for the navigation
\* shape; after any adds and removes every member has such maps.
C18_AddKeepsGivenAllocated ==
    /\ op.name \in { "append", "insert", "extend" } =>
           /\ ~op.raised
           /\ \A g \in DOMAIN op.slices :
                  \E c \in DOMAIN comps :
                      comps[c] = create_arrays(op.slices[g], navigation_shape)
           /\ Len(comps) = Len(op.pre) + Len(op.slices)
    /\ MembersAllocated

\* append and extend with a list add what they are given
AppendAndListExtendAdd ==
    (op.name = "append" \/ (op.name = "extend" /\ Len(comps) > Len(op.pre))) =>
        /\ ~op.raised
        /\ comps = op.pre \o [g \in DOMAIN op.slices |->
                                  create_arrays(op.slices[g], navigation_shape)]

\* ------------------------------------------------ Edge (eelslab): __init__
\* what Edge.__init__ finds around it: GOS_dir configured, the element in
\* edges_dict, the subshells edges_dict lists for it, the GOS file on disk,
\* and whether the Component base class already provides the attributes
\* knots_factor and edgeenergy that setfslist and calculate_knots read
EdgeEnvs ==
    [gos_dir : BOOLEAN, element : BOOLEAN, subshells : SUBSET { "K1", "L3" },
     gos_file : BOOLEAN, base_attrs : BOOLEAN]

\* the argument element_subshell: how many '_' it has and the subshell named
EdgeArgs == [seps : 0..2, subshell : { "K", "L3" }]

\* readgosfile: convert to the "GATAN" nomenclature
gatan_subshell(subshell) == IF subshell = "K" THEN "K1" ELSE subshell

\* Edge.readgosfile
readgosfile(env, arg) ==
    IF ~env.element THEN "warning_exit"
    ELSE IF gatan_subshell(arg.subshell) \notin env.subshells THEN "warning_exit"
    ELSE IF ~env.gos_file THEN "IOError"
    ELSE "built"

\* Edge.__init__(element_subshell): how the construction ends
edge_init(env, arg) ==
    IF ~env.gos_dir THEN "warning_exit"
    ELSE IF arg.seps # 1 THEN "ValueError"
    ELSE IF ~env.base_attrs THEN "AttributeError"
    ELSE readgosfile(env, arg)

\* Edge(element_subshell)
EdgeInit(env, arg) ==
    /\ edge' = [called |-> TRUE, outcome |-> edge_init(env, arg),
                env |-> env, arg |-> arg]
    /\ UNCHANGED << comps, indexes, auto_update_plot, has_plot, axis,
                    channel_switches, low_loss, convolution_axis, convolved,
                    p0, mf, st, op, ev, free_parameters_boundaries,
                    mpfit_parinfo, files, jac, backup_channel_switches >>

InitEdge ==
    /\ InitCommon
    /\ channel_switches = [k \in 1..AxisSize |-> TRUE]
    /\ has_plot = FALSE
    /\ indexes = Origin
    /\ comps = << >>

NextEdge == \E env \in EdgeEnvs, arg \in EdgeArgs : EdgeInit(env, arg)

SpecEdge == InitEdge /\ [][NextEdge]_vars

\* a required external resource is missing
ResourceMissing ==
    \/ ~edge.env.gos_dir
    \/ ~edge.env.element
    \/ gatan_subshell(edge.arg.subshell) \notin edge.env.subshells
    \/ ~edge.env.gos_file

\* C19: constructing an Edge (from a well-formed element_subshell) when the
\* GOS directory is not configured, the element or the subshell is not in
\* the database or the GOS file is absent ends with the configuration error
\* of messages.warning_exit and with no other failure.
C19_MissingResourceIsConfigError ==
    (edge.called /\ edge.arg.seps = 1 /\ edge.env.base_attrs /\ ResourceMissing) =>
        edge.outcome = "warning_exit"

\* the same for every resource but the GOS file
MissingDatabaseEntryIsConfigError ==
    (edge.called /\ edge.arg.seps = 1 /\ edge.env.base_attrs /\ ResourceMissing
       /\ edge.outcome # "warning_exit") =>
        /\ edge.env.gos_dir
        /\ edge.env.element
        /\ gatan_subshell(edge.arg.subshell) \in edge.env.subshells
        /\ ~edge.env.gos_file
        /\ edge.outcome = "IOError"

\* ------------------------------------------------------------- _jacobian
\* Parameter.grad(axis): one row, which depends on the parameter's live
\* value and on the axis
grad(param, xs) == [n \in DOMAIN xs |-> param.value[1] * xs[n]]

\* a jacobian that leaves the twins out
jac_no_twins(param) == << >>

\* if parameter._twins: for parameter in parameter._twins
jac_twins(param) == param.twins

\* the gradient of one parameter, evaluated the way of the component that
\* owns the row: on the selected channels in a model that is not convolved,
\* on the convolution axis and convolved with the low loss for a convolved
\* component, on the whole axis otherwise
grad_eval(m, owner, param) ==
    IF m.convolved = TRUE
    THEN IF owner.convolved
         THEN convolve_valid(grad(param, m.convolution_axis.v), m.low_loss.data).out
         ELSE grad(param, AxisValues(m.axis))
    ELSE grad(param, Pick(AxisValues(m.axis), m.channel_switches))

\* np.add(par_grad, <twin's gradient>, par_grad) for every twin
RECURSIVE add_twins(_, _, _, _, _)
add_twins(m, cs, owner, par_grad, twins) ==
    IF twins = << >> THEN par_grad
    ELSE LET t == cs[Head(twins)[1]].params[Head(twins)[2]]
             g == grad_eval(m, owner, t)
         IN  add_twins(m, cs, owner, [n \in DOMAIN par_grad |-> par_grad[n] + g[n]],
                       Tail(twins))

\* the rows of the free parameters of component c, in their order
RECURSIVE jac_component(_, _, _, _, _)
jac_component(m, cs, c, k, rows) ==
    IF k > Len(cs[c].params) THEN rows
    ELSE IF ~cs[c].params[k].free THEN jac_component(m, cs, c, k + 1, rows)
    ELSE LET par_grad == grad_eval(m, cs[c], cs[c].params[k])
             row == add_twins(m, cs, cs[c], par_grad, jac_twins(cs[c].params[k]))
         IN  jac_component(m, cs, c, k + 1, Append(rows, row))

\* the loop of _jacobian over the components: each active one is charged
\* with its slice of param, then its rows are stacked
RECURSIVE jac_loop(_, _, _, _, _, _)
jac_loop(m, cs, c, counter, param, rows) ==
    IF c > Len(cs) THEN [comps |-> cs, rows |-> rows]
    ELSE IF ~cs[c].active THEN jac_loop(m, cs, c + 1, counter, param, rows)
    ELSE LET n == nfree_param(cs[c])
             charged == [cs EXCEPT ![c] =
                            component_charge(cs[c], Slice(param, counter, counter + n))]
         IN  jac_loop(m, charged, c + 1, counter + n, param,
                      jac_component(m, charged, c, 1, rows))

\* Model._jacobian(param, y) without weights: grad[1:, channel_switches] in
\* a convolved model, grad[1:, :] otherwise; with no row stacked grad has
\* one dimension and the indexing raises IndexError
jacobian(m, param) ==
    LET r == jac_loop(m, m.comps, 1, 0, param, << >>)
    IN  IF r.rows = << >>
        THEN [ok |-> FALSE, rows |-> << >>, comps |-> r.comps]
        ELSE [ok |-> TRUE, comps |-> r.comps,
              rows |-> IF m.convolved = TRUE
                       THEN [j \in DOMAIN r.rows |-> Pick(r.rows[j], m.channel_switches)]
                       ELSE r.rows]

\* the vector the optimizer hands to _jacobian: p0 or p0 with other values
JacParams == { [k \in 1..(MaxComps * 3) |-> 2] }

JJacobian(param) ==
    /\ LET j == jacobian(Evaluated, param)
       IN  /\ jac' = [done |-> TRUE, ok |-> j.ok, rows |-> j.rows,
                      m |-> Evaluated, param |-> param]
           /\ comps' = j.comps
    /\ UNCHANGED << indexes, auto_update_plot, has_plot, axis, channel_switches,
                    low_loss, convolution_axis, convolved, p0, mf, st, op, ev,
                    free_parameters_boundaries, mpfit_parinfo, files, edge,
                    backup_channel_switches >>

\* components of a free scalar and a two-element parameter; the scalar of
\* one component (twin, 0 for none) has the two-element parameter of the
\* next component as its twin; the two-element parameter of the first
\* component may be free
JacModels ==
    UNION { { [i \in 1..n |->
                 LET c == VectorComp(i, f[i][1], f[i][2], TRUE, i = 1 /\ free2)
                 IN  [c EXCEPT !.params[1].twins =
                         IF i = twin THEN << << (i % n) + 1, 2 >> >> ELSE << >>]] :
               f \in [1..n -> BOOLEAN \X BOOLEAN], free2 \in BOOLEAN,
               twin \in 0..n } :
            n \in 1..MaxComps }

JacSwitches ==
    { [k \in 1..AxisSize |-> TRUE], [k \in 1..AxisSize |-> k # 1] }

JacLowLoss ==
    { [given |-> TRUE, data |-> << 1, 2 >>, offset |-> 0],
      [given |-> TRUE, data |-> << 1 >>, offset |-> 0] }

InitJac ==
    /\ InitCommon
    /\ has_plot = FALSE
    /\ indexes = Origin
    /\ channel_switches \in JacSwitches
    /\ comps \in JacModels

NextJac ==
    \/ \E value \in JacLowLoss : EvSetLowLoss(value)
    \/ \E param \in JacParams : JJacobian(param)
    \/ JJacobian(set_p0(comps).v)

SpecJac == InitJac /\ [][NextJac]_vars

\* the parameters that own a row: the free ones of the active components
RowOwners(cs) ==
    Concat([c \in DOMAIN cs |->
        IF ~cs[c].active THEN << >>
        ELSE SelectSeq([k \in DOMAIN cs[c].params |-> << c, k >>],
                       LAMBDA o : cs[c].params[o[2]].free)])

\* one gradient over the whole axis, convolved with the response when the
\* owning component is convolved in a convolved model
WayOf(m, owner, param) ==
    IF m.convolved /\ owner.convolved
    THEN convolve_valid(grad(param, m.convolution_axis.v), m.low_loss.data).out
    ELSE grad(param, AxisValues(m.axis))

\* the row the claim describes for the owner o, cs being the components
\* after the call
ExpectedRow(m, cs, o) ==
    LET own == cs[o[1]].params[o[2]]
        parts == << WayOf(m, cs[o[1]], own) >>
                    \o [t \in DOMAIN own.twins |->
                           WayOf(m, cs[o[1]], cs[own.twins[t][1]].params[own.twins[t][2]])]
        total == [n \in 1..m.axis.size |-> SumSeq([q \in DOMAIN parts |-> parts[q][n]])]
    IN  Pick(total, m.channel_switches)

\* C20: _jacobian has one row per free parameter of the active components,
\* in p0 order; each row is the parameter's own gradient plus the gradient
\* of each of its direct twins, all evaluated the way of the owning
\* component; the columns are the channels selected by channel_switches.
C20_JacobianRows ==
    (jac.done /\ RowOwners(jac.m.comps) # << >>) =>
        /\ jac.ok
        /\ comps = charge_p0(jac.m.comps, jac.param)
        /\ Len(jac.rows) = Len(RowOwners(comps))
        /\ \A j \in DOMAIN jac.rows :
               jac.rows[j] = ExpectedRow(jac.m, comps, RowOwners(comps)[j])

C20_Witness ==
    /\ jac.done
    /\ jac.ok
    /\ jac.m.convolved
    /\ Len(jac.m.low_loss.data) = 2
    /\ Len(jac.rows) >= 2
    /\ \E k \in DOMAIN jac.m.channel_switches : ~jac.m.channel_switches[k]
    /\ \E c \in DOMAIN comps :
          /\ comps[c].active
          /\ comps[c].convolved
          /\ comps[c].params[1].twins # << >>
    /\ \A j \in DOMAIN jac.rows :
          jac.rows[j] = ExpectedRow(jac.m, comps, RowOwners(comps)[j])

\* ------------------------------------------ multifit: order of the steps
\* the positions fitted so far
NFitted == Cardinality({ pos \in NavPositions : mf.fitcount[pos] >= 1 })

\* the live values the charge of multifit has to give at the position idx
ChargedFrom(cs, idx, cof) ==
    \A c \in DOMAIN cs : \A p \in DOMAIN cs[c].params :
        (~cof \/ ~cs[c].params[p].free) =>
            cs[c].params[p].value = cs[c].params[p].map[idx]

InitTerm ==
    /\ InitCommon
    /\ channel_switches = [k \in 1..AxisSize |-> TRUE]
    /\ has_plot = FALSE
    /\ indexes = Origin
    /\ \E ramp \in BOOLEAN : comps = FitModel(ramp)

NextTerm ==
    \/ \E mask \in PassMasks, cof \in BOOLEAN : MFStart(mask, cof)
    \/ MFLoop
    \/ MFMove
    \/ MFCharge
    \/ MFFit
    \/ MFProgress
    \/ MFFinish

SpecTerm == InitTerm /\ [][NextTerm]_vars /\ WF_vars(NextTerm)

Unmasked == { pos \in NavPositions : MaskAllows(mf.mask, pos) }

\* at DONE every index was taken and the counter is the bar's maximum
DoneCounts ==
    mf.pc \in { "finish", "done" } =>
        /\ mf.k = Len(Nd) + 1
        /\ mf.i = Cardinality(Unmasked)
        /\ mf.i = mf.maxval
        /\ mf.maxval = NavCount(navigation_shape) - Cardinality(NavPositions \ Unmasked)

\* the index in hand is the k-th one in row-major order
RowMajorVisit ==
    mf.pc \in { "charge", "fit", "progress" } => FlatIndex(indexes) = mf.k - 1

\* the loop takes the indexes one after the other, none twice
OneByOne ==
    \/ mf.pc = "idle"
    \/ mf'.k = mf.k
    \/ mf.pc \in { "loop", "progress" } /\ mf.k <= Len(Nd) /\ mf'.k = mf.k + 1

\* C22: multifit terminates when every single-position fit does: it takes
\* every navigation position exactly once in row-major order, reaches DONE
\* after the last one, and the progress counter is then the number of
\* unmasked positions, the maximum of the progress bar.
C22_Terminates ==
    /\ [](DoneCounts /\ RowMajorVisit)
    /\ [][OneByOne]_vars
    /\ (mf.pc = "loop") ~> (mf.pc = "done")

C22_Witness ==
    /\ mf.pc = "done"
    /\ mf.k = Len(Nd) + 1
    /\ mf.i = mf.maxval
    /\ mf.i > 0
    /\ mf.i < NavCount(navigation_shape)

\* ------------------------------------------- charge and the observers
\* some parameter of the model notifies its observers
Connected(cs) ==
    \E c \in DOMAIN cs : \E k \in DOMAIN cs[c].params :
        cs[c].params[k].connection_active

\* one statement of Model.charge as it ran: its name, the component it
\* worked on (0 for none) and the observers' state it left
Event(e, c, m) == [e |-> e, c |-> c, aap |-> m.aap, conn |-> Connected(m.comps)]

\* the statements Model.charge runs, in the order of lines 272-281
charge_events(m, idx, only_fixed, plot, fails) ==
    LET switch_aap == (FALSE # m.aap)
        m1 == IF switch_aap THEN set_auto_update_plot(m, FALSE) ELSE m
        m2 == set_auto_update_plot(m1, TRUE)
    IN  (IF switch_aap THEN << Event("set_auto_update_plot", 0, m1) >> ELSE << >>)
        \o [c \in DOMAIN m.comps |-> Event("charge_value_from_map", c, m1)]
        \o (IF switch_aap
            THEN << Event("set_auto_update_plot", 0, m2),
                    Event("update_plot", 0, update_plot(m2, plot, fails)) >>
            ELSE << >>)

\* Model.charge(only_fixed), with the statements it ran, the flag at entry
\* and the flag at return kept in op
ObCharge(only_fixed) ==
    /\ \E fails \in PlotFailures :
          LET m == charge(ModelOf, indexes, only_fixed, has_plot, fails)
          IN  /\ comps' = m.comps
              /\ auto_update_plot' = m.aap
              /\ op' = [name |-> "charge", entry |-> auto_update_plot,
                        failed |-> has_plot /\ fails,
                        exit |-> m.aap, exitconn |-> Connected(m.comps),
                        events |-> charge_events(ModelOf, indexes, only_fixed,
                                                 has_plot, fails)]
    /\ UNCHANGED << indexes, has_plot, axis, channel_switches, low_loss,
                    convolution_axis, convolved, p0, mf, st, ev, ext >>

InitObs ==
    /\ InitCommon
    /\ channel_switches = [k \in 1..AxisSize |-> TRUE]
    /\ has_plot \in BOOLEAN
    /\ indexes = Origin
    /\ \E ramp \in BOOLEAN : comps = FitModel(ramp)

NextObs ==
    \/ \E only_fixed \in BOOLEAN : ObCharge(only_fixed)
    \/ \E tof \in BOOLEAN : StSetAutoUpdatePlot(tof)
    \/ \E c \in DOMAIN comps : \E p \in DOMAIN comps[c].params :
          \E v \in MutVals : StMutate(c, p, v)
    \/ StSet

SpecObs == InitObs /\ [][NextObs]_vars

EventsNamed(e) == { n \in DOMAIN op.events : op.events[n].e = e }

\* observers are off while the components are charged and update_plot runs
\* once, after the last of them, when and only when they were on at entry
SuspendedWhileCharging ==
    op.name = "charge" =>
        LET n == Len(op.events)
            charges == EventsNamed("charge_value_from_map")
        IN  /\ Cardinality(charges) = Len(comps)
            /\ \A k \in charges : ~op.events[k].aap /\ ~op.events[k].conn
            /\ IF op.entry
               THEN /\ op.events[1].e = "set_auto_update_plot"
                    /\ ~op.events[1].aap
                    /\ charges = 2..(n - 2)
                    /\ op.events[n - 1].e = "set_auto_update_plot"
                    /\ op.events[n - 1].aap
                    /\ EventsNamed("update_plot") = { n }
               ELSE /\ charges = 1..n
                    /\ EventsNamed("update_plot") = { }

\* C23 as stated: observers suspended during the charge, one update_plot at
\* the end when auto_update_plot was on, none when it was off, and after the
\* call auto_update_plot has the value it had at entry.
C23_ChargeRestoresFlag ==
    /\ SuspendedWhileCharging
    /\ op.name = "charge" => op.exit = op.entry

\* C23, amended: as above, but auto_update_plot has its entry value after the
\* call unless the redraw of update_plot raised; then the parameters are
\* disconnected and auto_update_plot is False.
C23_ChargeRestoresFlagUnlessRedrawFails ==
    /\ SuspendedWhileCharging
    /\ op.name = "charge" =>
           /\ op.exit = (op.entry /\ ~op.failed)
           /\ op.events[Len(op.events)].aap = op.exit
           /\ op.exitconn = op.exit

C23_Witness ==
    /\ op.name = "charge"
    /\ op.entry
    /\ ~op.failed
    /\ op.exit
    /\ EventsNamed("update_plot") = { Len(op.events) }
    /\ Cardinality(EventsNamed("charge_value_from_map")) = 2

\* ------------------------------------ multifit: nothing leaks between fits
\* C24: without seeding (charge_only_fixed = False) the live values a fit
\* starts from are those of the position's own map as it was before the
\* pass, whatever the maps of the other positions hold and whatever the
\* fits of the other positions left: two runs that differ only there start
\* the fit of the position from the same live values.
C24_FitStartsFromOwnMap ==
    (mf.pc = "fit" /\ ~mf.cof) =>
        /\ LiveValues(comps) = MapValues(comps, indexes)
        /\ MapValues(comps, indexes) = MapValues(mf.pre, indexes)

C24_Witness ==
    /\ mf.pc = "fit"
    /\ ~mf.cof
    /\ mf.left # << >>
    /\ LiveValues(comps) # mf.left
    /\ \E pos \in NavPositions :
          /\ pos # indexes
          /\ MapValues(comps, pos) # MapValues(mf.pre, pos)
          /\ MapValues(mf.pre, pos) # MapValues(mf.pre, indexes)
    /\ LiveValues(comps) = MapValues(mf.pre, indexes)

\* ------------------------------------------- Edge (eelslab): the object
\* a constructed Edge is kept in the variable edge: fs_state and fs_emax are
\* the private attributes behind the two properties, fslist the
\* fine-structure parameter, knots what calculate_knots left (its first and
\* last knot and the number of elements the knots were spread over), delta
\* and effective_angle the values of the two parameters, previous_delta and
\* previous_effective_angle what function remembers; runs counts the runs of
\* integrategos within the last call of function, last tells what the last
\* operation was, and changed whether delta or effective_angle was assigned
\* since the last call of function (or function was not called yet).  fs_state is "True", "False" or "0", a value that is
\* false without being False.

\* the value of a Python bool in arithmetic and in ==
pynum(x) == IF x = "True" THEN 1 ELSE 0

\* 1 / self.dispersion, dispersion being 0.1
dispersion_inverse == 10

\* an fs_state setter that leaves the parameter alone
set_fs_state_plain(e, arg) == [e EXCEPT !.fs_state = arg]

\* Edge._set_fs_state(arg)
set_fs_state(e, arg) ==
    [e EXCEPT !.fslist.free = IF arg = "False" THEN FALSE ELSE @,
              !.fs_state = arg]

\* Edge._get_fs_emax(): return self.__fs_state
get_fs_emax(e) == pynum(e.fs_state)

\* Edge.calculate_knots()
calculate_knots(e) ==
    LET start == e.edgeenergy + e.delta
        stop == start + get_fs_emax(e)
    IN  [e EXCEPT !.knots = [start |-> start, stop |-> stop, n |-> e.fslist.nel]]

\* Edge.setfslist(): int(round(knots_factor * fs_emax / dispersion)) + 4
setfslist(e) ==
    calculate_knots(
        [e EXCEPT !.fslist.nel =
                      e.knots_factor * get_fs_emax(e) * dispersion_inverse + 4])

\* Edge._set_fs_emax(arg)
set_fs_emax(e, arg) == setfslist([e EXCEPT !.fs_emax = arg])

\* Edge.integrategos(): of its effects, the one on the effective angle
integrategos(e) ==
    LET e1 == [e EXCEPT !.runs = @ + 1]
    IN  IF e1.effective_angle = 0
        THEN [e1 EXCEPT !.effective_angle = e.computed_angle,
                        !.previous_effective_angle = e.computed_angle]
        ELSE e1

\* Edge.function(E): the two tests that refresh the cross section
edge_function(e) ==
    LET e1 == IF e.delta # e.previous_delta
              THEN calculate_knots(
                       integrategos([e EXCEPT !.previous_delta = e.delta]))
              ELSE e
    IN  IF e1.previous_effective_angle # e1.effective_angle
        THEN integrategos(e1)
        ELSE e1

\* what the configuration and the data base give a new Edge: the defaults
\* fs_state, fs_emax and knots_factor, the onset energy of edges_dict and the
\* angle EffectiveAngle(...) computes
FsDefaults ==
    [fs_state : { "True", "False" }, fs_emax : { 1, 2 }, knots_factor : { 1 },
     onset : { 5 }, angle : { 2 }]

\* Edge.__init__ when every resource is there, in the order of its lines;
\* the attributes setfslist reads at line 76 before __init__ assigns them
\* are those of the base class
edge_new(d) ==
    LET e0 == [fs_state |-> "0", fs_emax |-> 0, knots_factor |-> d.knots_factor,
               edgeenergy |-> 0, fslist |-> [free |-> TRUE, nel |-> 1],
               knots |-> [start |-> 0, stop |-> 0, n |-> 1],
               delta |-> 0, previous_delta |-> 0,
               effective_angle |-> 0, previous_effective_angle |-> 0,
               computed_angle |-> d.angle, runs |-> 0,
               last |-> [op |-> "init"], changed |-> TRUE, called |-> TRUE,
               outcome |-> "built"]
        e75 == set_fs_state(e0, d.fs_state)
        e76 == set_fs_emax(e75, d.fs_emax)
        e95 == [e76 EXCEPT !.edgeenergy = d.onset]
    IN  integrategos(e95)

EdgeFrame ==
    UNCHANGED << comps, indexes, auto_update_plot, has_plot, axis,
                 channel_switches, low_loss, convolution_axis, convolved,
                 p0, mf, st, op, ev, free_parameters_boundaries,
                 mpfit_parinfo, files, jac, backup_channel_switches >>

\* edge.fs_state = arg
FsSetState(arg) ==
    /\ edge' = [set_fs_state(edge, arg) EXCEPT
                   !.last = [op |-> "fs_state", arg |-> arg,
                             free |-> edge.fslist.free]]
    /\ EdgeFrame

\* edge.fs_emax = arg
FsSetEmax(arg) ==
    /\ edge' = [set_fs_emax(edge, arg) EXCEPT
                   !.last = [op |-> "fs_emax", arg |-> arg]]
    /\ EdgeFrame

\* edge.fslist.free = tof, freeing or fixing the fine structure by hand
FsSetFree(tof) ==
    /\ edge.fslist.free # tof
    /\ edge' = [edge EXCEPT !.fslist.free = tof, !.last = [op |-> "free"]]
    /\ EdgeFrame

\* edge.delta.value = d
FsSetDelta(d) ==
    /\ edge.delta # d
    /\ edge' = [edge EXCEPT !.delta = d, !.last = [op |-> "delta"],
                            !.changed = TRUE]
    /\ EdgeFrame

\* edge.effective_angle.value = a
FsSetAngle(a) ==
    /\ edge.effective_angle # a
    /\ edge' = [edge EXCEPT !.effective_angle = a, !.last = [op |-> "angle"],
                            !.changed = TRUE]
    /\ EdgeFrame

\* edge.function(E)
FsFunction ==
    /\ LET e == edge_function([edge EXCEPT !.runs = 0])
       IN  edge' = [e EXCEPT
                       !.last = [op |-> "function",
                                 quiet |-> ~edge.changed],
                       !.changed = FALSE]
    /\ EdgeFrame

InitFs ==
    /\ auto_update_plot = FALSE
    /\ axis = DefaultAxis
    /\ low_loss = NoLowLoss
    /\ convolution_axis = [state |-> "unset", v |-> << >>]
    /\ convolved = FALSE
    /\ p0 = [set |-> FALSE, v |-> << >>]
    /\ mf = MFIdle
    /\ st = StIdle
    /\ op = OpNone
    /\ ev = EvNone
    /\ free_parameters_boundaries = NoBounds
    /\ mpfit_parinfo = NoBounds
    /\ files = NoFiles
    /\ jac = JacNone
    /\ backup_channel_switches = NoBounds
    /\ channel_switches = [k \in 1..AxisSize |-> TRUE]
    /\ has_plot = FALSE
    /\ indexes = Origin
    /\ comps = << >>
    /\ \E d \in FsDefaults : edge = edge_new(d)

NextFs ==
    \/ \E arg \in { "True", "False", "0" } : FsSetState(arg)
    \/ \E arg \in { 1, 2, 3 } : FsSetEmax(arg)
    \/ \E tof \in BOOLEAN : FsSetFree(tof)
    \/ \E d \in { 0, 1 } : FsSetDelta(d)
    \/ \E a \in { 0, 2, 3 } : FsSetAngle(a)
    \/ FsFunction

SpecFs == InitFs /\ [][NextFs]_vars

\* C25: assigning False to fs_state makes fslist.free False; assigning True
\* leaves fslist.free as it was; right after an assignment of False the
\* fine-structure parameter is not free.
C25_FsStateFalseFixesFineStructure ==
    edge.last.op = "fs_state" =>
        /\ edge.fs_state = edge.last.arg
        /\ edge.last.arg = "False" => ~edge.fslist.free
        /\ edge.last.arg = "True" => edge.fslist.free = edge.last.free

C25_Witness ==
    /\ edge.last.op = "fs_state"
    /\ edge.last.arg = "False"
    /\ edge.last.free
    /\ ~edge.fslist.free

\* the list and the knots as the assigned fs_emax would make them
SizedFrom(e, v) ==
    /\ e.fslist.nel = e.knots_factor * v * dispersion_inverse + 4
    /\ e.knots.n = e.fslist.nel
    /\ e.knots.stop = e.knots.start + v

\* C29: after the assignment fs_emax = v reading fs_emax gives v, whatever
\* fs_state is, and setfslist and calculate_knots have sized the
\* fine-structure list and placed the knots from v.
C29_FsEmaxReadsBack ==
    edge.last.op = "fs_emax" =>
        /\ get_fs_emax(edge) = edge.last.arg
        /\ SizedFrom(edge, edge.last.arg)

\* the assigned value is kept, and what is read and used is fs_state
FsEmaxReadsFsState ==
    edge.last.op = "fs_emax" =>
        /\ edge.fs_emax = edge.last.arg
        /\ get_fs_emax(edge) = pynum(edge.fs_state)
        /\ SizedFrom(edge, pynum(edge.fs_state))

\* C30: after a call of function the remembered delta and effective angle
\* are the current ones, and a call of function that follows another with no
\* assignment to delta or to the effective angle in between does not run
\* integrategos.
C30_FunctionRecomputesOnlyOnChange ==
    edge.last.op = "function" =>
        /\ edge.previous_delta = edge.delta
        /\ edge.previous_effective_angle = edge.effective_angle
        /\ edge.last.quiet => edge.runs = 0

\* the same for delta alone, and for the angle when it was reset to 0
FunctionRemembersDelta ==
    edge.last.op = "function" =>
        /\ edge.previous_delta = edge.delta
        /\ (edge.last.quiet
              /\ edge.previous_effective_angle = edge.effective_angle) =>
               edge.runs = 0

\* --------------------------------------------- low_loss and convolved
\* a new model to which low-loss spectra are assigned and taken away
NextLowLoss ==
    \E value \in LowLossChoices \cup { NoLowLoss } : EvSetLowLoss(value)

SpecLowLoss == InitEval /\ [][NextLowLoss]_vars

\* C26: after any sequence of assignments to low_loss, convolved is True
\* exactly when low_loss is not None, and convolution_axis is None exactly
\* when low_loss is None.
C26_ConvolvedTracksLowLoss ==
    /\ convolved <=> low_loss.given
    /\ (convolution_axis.state = "none") <=> ~low_loss.given

\* the same once low_loss was assigned at least once; before that the
\* attribute convolution_axis does not exist
ConvolvedTracksLowLossOnceAssigned ==
    /\ convolved <=> low_loss.given
    /\ convolution_axis.state = "unset" => ~low_loss.given
    /\ convolution_axis.state # "unset" =>
           ((convolution_axis.state = "none") <=> ~low_loss.given)

\* ------------------------------------------------------ the data range
\* an index argument is << >> for None and << i >> for the integer i

\* where Python puts a bound of a slice on a sequence of n elements
slice_bound(i, n, default) ==
    IF i = << >> THEN default
    ELSE IF i[1] < 0 THEN (IF i[1] + n < 0 THEN 0 ELSE i[1] + n)
    ELSE IF i[1] > n THEN n
    ELSE i[1]

\* a slice that takes its end in
slice_closed(sw, i1, i2) ==
    { k \in DOMAIN sw :
        /\ slice_bound(i1, Len(sw), 0) <= k - 1
        /\ k - 1 <= slice_bound(i2, Len(sw), Len(sw)) }

\* the channels channel_switches[i1:i2] names
slice(sw, i1, i2) ==
    { k \in DOMAIN sw :
        /\ slice_bound(i1, Len(sw), 0) <= k - 1
        /\ k - 1 < slice_bound(i2, Len(sw), Len(sw)) }

\* channel_switches[i1:i2] = tof
slice_assign(sw, i1, i2, tof) ==
    [k \in DOMAIN sw |-> IF k \in slice(sw, i1, i2) THEN tof ELSE sw[k]]

\* if self.auto_update_plot is True: self.update_plot()
RangeUpdatePlot ==
    \E fails \in PlotFailures :
        LET m == IF auto_update_plot
                 THEN update_plot(ModelOf, has_plot, fails)
                 ELSE ModelOf
        IN  /\ comps' = m.comps
            /\ auto_update_plot' = m.aap

RangeFrame ==
    UNCHANGED << indexes, has_plot, axis, low_loss, convolution_axis,
                 convolved, p0, mf, st, ev, free_parameters_boundaries,
                 mpfit_parinfo, files, edge, jac >>

RangeCall(name, i1, i2) ==
    [name |-> name, i1 |-> i1, i2 |-> i2, pre |-> channel_switches]

\* Model.set_data_range_in_pixels(i1, i2)
RSetDataRangeInPixels(name, i1, i2) ==
    /\ backup_channel_switches' = [set |-> TRUE, v |-> channel_switches]
    /\ channel_switches' =
           slice_assign([k \in DOMAIN channel_switches |-> FALSE], i1, i2, TRUE)
    /\ RangeUpdatePlot
    /\ op' = RangeCall(name, i1, i2)
    /\ RangeFrame

\* Model.reset_data_range()
RResetDataRange == RSetDataRangeInPixels("reset_data_range", << >>, << >>)

\* Model.remove_data_range_in_pixels(i1, i2)
RRemoveDataRangeInPixels(i1, i2) ==
    /\ channel_switches' = slice_assign(channel_switches, i1, i2, FALSE)
    /\ RangeUpdatePlot
    /\ op' = RangeCall("remove_data_range_in_pixels", i1, i2)
    /\ UNCHANGED backup_channel_switches
    /\ RangeFrame

\* Model.add_data_range_in_pixels(i1, i2)
RAddDataRangeInPixels(i1, i2) ==
    /\ channel_switches' = slice_assign(channel_switches, i1, i2, TRUE)
    /\ RangeUpdatePlot
    /\ op' = RangeCall("add_data_range_in_pixels", i1, i2)
    /\ UNCHANGED backup_channel_switches
    /\ RangeFrame

\* Model.reset_the_data_range()
RResetTheDataRange ==
    /\ channel_switches' = [k \in DOMAIN channel_switches |-> TRUE]
    /\ RangeUpdatePlot
    /\ op' = RangeCall("reset_the_data_range", << >>, << >>)
    /\ UNCHANGED backup_channel_switches
    /\ RangeFrame

\* the arguments tried: None, an index from the end and one from the start
\* for i1; None, an index inside the axis and one behind it for i2
PixelStarts == { << >>, << -1 >>, << 1 >> }

PixelStops == { << >>, << 2 >>, << AxisSize + 1 >> }

InitRange ==
    /\ InitCommon
    /\ channel_switches = [k \in 1..AxisSize |-> TRUE]
    /\ has_plot = TRUE
    /\ indexes = Origin
    /\ comps = FitModel(FALSE)

NextRange ==
    \/ \E i1 \in PixelStarts, i2 \in PixelStops :
          RSetDataRangeInPixels("set_data_range_in_pixels", i1, i2)
    \/ RResetDataRange
    \/ \E i1 \in PixelStarts, i2 \in PixelStops : RRemoveDataRangeInPixels(i1, i2)
    \/ \E i1 \in PixelStarts, i2 \in PixelStops : RAddDataRangeInPixels(i1, i2)
    \/ RResetTheDataRange
    \/ \E tof \in BOOLEAN : StSetAutoUpdatePlot(tof)

SpecRange == InitRange /\ [][NextRange]_vars

\* the channels of [i1, i2), None standing for the end of the axis on its side
Interval(i1, i2) ==
    { k \in 1..axis.size :
        /\ (i1 # << >> => i1[1] <= k - 1)
        /\ (i2 # << >> => k - 1 < i2[1]) }

\* indexes that name channels by their position from the start
PlainIndexes(i1, i2) ==
    /\ (i1 # << >> => i1[1] >= 0)
    /\ (i2 # << >> => i2[1] >= 0)

RangeNames == { "set_data_range_in_pixels", "reset_data_range",
                "remove_data_range_in_pixels", "add_data_range_in_pixels",
                "reset_the_data_range" }

\* C27: remove_data_range_in_pixels(i1, i2) switches the channels of
\* [i1, i2) off and add_data_range_in_pixels(i1, i2) switches them on, every
\* other channel staying as it was; set_data_range_in_pixels(i1, i2) leaves
\* exactly the channels of [i1, i2) selected and keeps the mask it found in
\* backup_channel_switches; reset_data_range and reset_the_data_range select
\* every channel; channel_switches always has the length of the axis.
C27_DataRangeFrame ==
    /\ Len(channel_switches) = axis.size
    /\ (op.name \in RangeNames /\ PlainIndexes(op.i1, op.i2)) =>
          LET named == Interval(op.i1, op.i2)
          IN  /\ op.name = "remove_data_range_in_pixels" =>
                    \A k \in 1..axis.size :
                        channel_switches[k] =
                            (IF k \in named THEN FALSE ELSE op.pre[k])
              /\ op.name = "add_data_range_in_pixels" =>
                    \A k \in 1..axis.size :
                        channel_switches[k] =
                            (IF k \in named THEN TRUE ELSE op.pre[k])
              /\ op.name = "set_data_range_in_pixels" =>
                    /\ \A k \in 1..axis.size : channel_switches[k] = (k \in named)
                    /\ backup_channel_switches = [set |-> TRUE, v |-> op.pre]
              /\ op.name \in { "reset_data_range", "reset_the_data_range" } =>
                    \A k \in 1..axis.size : channel_switches[k]

C27_Witness ==
    /\ op.name = "remove_data_range_in_pixels"
    /\ op.i1 = << 1 >>
    /\ op.i2 = << 2 >>
    /\ ~channel_switches[2]
    /\ op.pre[2]
    /\ \E k \in 1..axis.size : channel_switches[k]
    /\ backup_channel_switches.set
    /\ backup_channel_switches.v # channel_switches

\* ------------------------------------- auto_update_plot and the parameters
\* Model.plot(): the spectrum is plotted, the parameters are connected
\* (connect_parameters2update_plot) and set_auto_update_plot(True) follows
CPlot ==
    /\ has_plot' = TRUE
    /\ LET m == set_auto_update_plot([ModelOf EXCEPT !.comps = touch(comps)], TRUE)
       IN  /\ comps' = m.comps
           /\ auto_update_plot' = m.aap
    /\ op' = [name |-> "plot", raised |-> FALSE, pre |-> comps, slices |-> << >>]
    /\ UNCHANGED << indexes, axis, channel_switches, low_loss,
                    convolution_axis, convolved, p0, mf, st, ev, ext >>

\* Model.disconnect_parameters2update_plot()
CDisconnect ==
    /\ LET m == disconnect_parameters2update_plot(ModelOf)
       IN  /\ comps' = m.comps
           /\ auto_update_plot' = m.aap
    /\ op' = [name |-> "disconnect", raised |-> FALSE, pre |-> comps,
              slices |-> << >>]
    /\ UNCHANGED << indexes, has_plot, axis, channel_switches, low_loss,
                    convolution_axis, convolved, p0, mf, st, ev, ext >>

\* the components handed to the model
ConnComps == { NewComp(1, TRUE), NewComp(2, FALSE) }

NextConn ==
    \/ \E tof \in BOOLEAN : StSetAutoUpdatePlot(tof)
    \/ \E c \in ConnComps : LAppend(c)
    \/ \E n \in 1..MaxComps, oneshot \in BOOLEAN :
          \E objects \in [1..n -> ConnComps] : LExtend(objects, oneshot)
    \/ \E k \in 1..MaxComps : LRemove(k)
    \/ CPlot
    \/ CDisconnect

SpecConn == InitList /\ [][NextConn]_vars

AllConnected(cs) ==
    \A c \in DOMAIN cs : \A k \in DOMAIN cs[c].params :
        cs[c].params[k].connection_active

\* C28: after any sequence of set_auto_update_plot, append, extend, remove,
\* plot and disconnect_parameters2update_plot, whenever auto_update_plot is
\* True every parameter of every component of the model has
\* connection_active True.
C28_FlagAgreesWithParameters ==
    auto_update_plot => AllConnected(comps)

\* the other direction: no parameter notifies while the flag is off
ConnectionImpliesFlag ==
    Connected(comps) => auto_update_plot

====
